---------------------------- MODULE Spec2Model ----------------------------
(***************************************************************************)
(* Risk & hedging decision engine of the Spot-Exposure-Hedging-Bot:        *)
(* Portfolio / RiskThresholds (src/src/risk/models.py), the three hedge    *)
(* strategies (src/src/strategies/hedge_strategies.py) and the             *)
(* StrategyManager (src/src/strategies/strategy_manager.py).               *)
(*                                                                         *)
(* Numbers.  The program computes with Python floats; the model computes   *)
(* with integers in fixed units, and the inputs it enumerates are chosen   *)
(* so that the quotients taken on them are exact:                          *)
(*   quantities (size, delta, gamma, theta, vega) : 1/100   (QTY)          *)
(*   prices and money                             : cents                  *)
(*   fractions of a value (HedgeConfig costs)     : 1/10000 (BP)           *)
(*   the three scores of a ranking                : 1/10000 (BP)           *)
(*   total_score                                  : 1/100000               *)
(* An Optional[float] is a sequence of length <= 1: << >> is None.         *)
(* A text is a sequence of fragments; what each fragment contains, once    *)
(* lower-cased, is given by FragmentWords.                                 *)
(***************************************************************************)
EXTENDS Integers, Sequences, FiniteSets, TLC

VARIABLES
    portfolio,        \* Portfolio: [positions : Seq(Position), cash]
    thresholds,       \* RiskThresholds the manager / the caller holds
    breaches,         \* map returned by the last check_breach call
    strategy_order,   \* keys of StrategyManager.strategies, insertion order
    strategy_configs, \* HedgeStrategy -> HedgeConfig (the object the strategy shares)
    strategy_performance, \* HedgeStrategy -> StrategyPerformance
    recommendations,  \* list returned by the analyze / get_hedge call, when
                      \* that was the last operation (else empty; so for the next three)
    invoked,          \* strategies whose analyze_portfolio that call entered
    raised,           \* strategies whose analyze_portfolio raised in that call
    call_market_data, \* market_data argument of that call
    call_recs,        \* recommendations argument of the last rank / select call
    call_budget,      \* max_hedge_cost argument of the last select call
    rankings,         \* list built by the last rank_recommendations run
    selected,         \* list returned by the last select_optimal_hedges call
    call_position,    \* position argument of the last calculate_position_greeks
                      \* call, as it was on entry
    calc_result,      \* what the last RiskCalculator call returned or raised
    call_args,        \* arguments of the last call of a function of numbers
    strategies,       \* HedgeStrategy -> identity of the config object that
                      \* StrategyManager.strategies[t] uses
    strategy_config_ids, \* HedgeStrategy -> identity of strategy_configs[t]
    update_calls,     \* the update_strategy_performance calls made so far
    requests,         \* RateLimiter.requests: user id -> times of kept requests
    now,              \* the clock datetime.now() reads, in seconds
    granted,          \* user id -> times of all requests is_allowed granted
    allowed,          \* what the last is_allowed call returned
    lastOp            \* name of the last operation

vars == << portfolio, thresholds, breaches, strategy_order,
           strategy_configs, strategy_performance, recommendations, invoked,
           raised, call_market_data, call_recs, call_budget, rankings,
           selected, call_position, calc_result, call_args, strategies,
           strategy_config_ids, update_calls, requests, now, granted, allowed,
           lastOp >>

-----------------------------------------------------------------------------
(* Units and generic helpers                                               *)

QTY == 10 * 10        \* one unit of quantity
BP == 100 * 100       \* the fraction 1.0
CENTS == 10 * 10      \* one dollar

None == << >>
Some(x) == << x >>
IsNone(o) == o = << >>
OrZero(o) == IF o = << >> THEN 0 ELSE o[1]

Abs(x) == IF x < 0 THEN -x ELSE x
Min(a, b) == IF a < b THEN a ELSE b
Max(a, b) == IF a > b THEN a ELSE b

RECURSIVE SumSeq(_)
SumSeq(s) == IF s = << >> THEN 0 ELSE Head(s) + SumSeq(Tail(s))

Range(s) == { s[i] : i \in DOMAIN s }

\* s with its element at index i taken out
RemoveAt(s, i) == SubSeq(s, 1, i - 1) \o SubSeq(s, i + 1, Len(s))

-----------------------------------------------------------------------------
(* Position and Portfolio (risk/models.py)                                 *)

OptionTypes == { "option_call", "option_put" }

\* Position.market_value: size * current_price  (QTY * cents / QTY = cents)
market_value(pos) == (pos.size * pos.current_price) \div QTY

\* Position.is_option
is_option(pos) == pos.position_type \in OptionTypes

\* A mutation of total_market_value: the cash term is forgotten.
total_market_value_no_cash(pf) ==
    SumSeq([i \in DOMAIN pf.positions |-> market_value(pf.positions[i])])

\* Portfolio.total_market_value: recomputed from the positions on every read
total_market_value(pf) ==
    SumSeq([i \in DOMAIN pf.positions |-> market_value(pf.positions[i])]) + pf.cash

\* Portfolio.total_delta / total_gamma / total_theta / total_vega:
\* sum(pos.<greek> or 0.0 for pos in positions)
total_delta(pf) == SumSeq([i \in DOMAIN pf.positions |-> OrZero(pf.positions[i].delta)])
total_gamma(pf) == SumSeq([i \in DOMAIN pf.positions |-> OrZero(pf.positions[i].gamma)])
total_theta(pf) == SumSeq([i \in DOMAIN pf.positions |-> OrZero(pf.positions[i].theta)])
total_vega(pf) == SumSeq([i \in DOMAIN pf.positions |-> OrZero(pf.positions[i].vega)])

-----------------------------------------------------------------------------
(* RiskThresholds.check_breach (risk/models.py)                            *)

BreachKeys == { "delta", "gamma", "vega", "theta", "portfolio_size", "position_size" }

\* A mutation of check_breach: a value equal to its cap counts as a breach.
check_breach_inclusive(th, pf) ==
    [ delta |-> Abs(total_delta(pf)) >= th.max_delta,
      gamma |-> Abs(total_gamma(pf)) >= th.max_gamma,
      vega |-> Abs(total_vega(pf)) >= th.max_vega,
      theta |-> Abs(total_theta(pf)) >= th.max_theta,
      portfolio_size |-> Abs(total_market_value(pf)) >= th.max_portfolio_size,
      position_size |-> \E i \in DOMAIN pf.positions :
                            Abs(market_value(pf.positions[i])) >= th.max_position_size ]

check_breach(th, pf) ==
    [ delta |-> Abs(total_delta(pf)) > th.max_delta,
      gamma |-> Abs(total_gamma(pf)) > th.max_gamma,
      vega |-> Abs(total_vega(pf)) > th.max_vega,
      theta |-> Abs(total_theta(pf)) > th.max_theta,
      portfolio_size |-> Abs(total_market_value(pf)) > th.max_portfolio_size,
      position_size |-> \E i \in DOMAIN pf.positions :
                            Abs(market_value(pf.positions[i])) > th.max_position_size ]

\* any(risk_breaches.values())
AnyBreach(b) == \E k \in DOMAIN b : b[k]

-----------------------------------------------------------------------------
(* Inputs of the portfolio operations                                      *)

MaxPositions == 2

Position(sym, typ, size, entry, cur, d, g, t, v) ==
    [ symbol |-> sym, position_type |-> typ, size |-> size,
      entry_price |-> entry, current_price |-> cur,
      delta |-> d, gamma |-> g, theta |-> t, vega |-> v ]

\* Positions a caller creates.  Greeks are None until computed or set.
PositionPool ==
    { Position("AAPL", "spot", 100 * QTY, 150 * CENTS, 150 * CENTS,
               None, None, None, None),
      Position("ETH-USD", "perpetual", -(10 * QTY), 1400 * CENTS, 1500 * CENTS,
               Some(-10), Some(0), Some(0), Some(0)),
      Position("AAPL_C160", "option_call", 10 * QTY, 4 * CENTS, 5 * CENTS,
               Some(520), Some(5), Some(-5), Some(10)) }

SizeSet == { 100 * QTY, -(50 * QTY) }
PriceSet == { 155 * CENTS }
CashSet == { 0, 10000 * CENTS }

RiskThresholds(md, mg, mv, mt, mpos, mpf) ==
    [ max_delta |-> md, max_gamma |-> mg, max_vega |-> mv, max_theta |-> mt,
      max_position_size |-> mpos, max_portfolio_size |-> mpf ]

\* RiskThresholds(): the dataclass defaults (0.1, 0.05, 0.1, 0.05, 100000, 500000)
DefaultThresholds ==
    RiskThresholds(10, 5, 10, 5, 100000 * CENTS, 500000 * CENTS)

\* Caps a caller configures; the second makes values meet their caps exactly.
ThresholdSet ==
    { DefaultThresholds,
      RiskThresholds(510, 5, 10, 5, 15000 * CENTS, 25000 * CENTS) }

NoBreaches == [ k \in BreachKeys |-> FALSE ]

-----------------------------------------------------------------------------
(* Portfolio operations (risk/models.py)                                   *)

managerVars == << strategy_order, strategy_configs, strategy_performance,
                  recommendations, invoked, raised, call_market_data >>
selectVars == << call_recs, call_budget, rankings, selected >>
calculatorVars == << call_position, calc_result, call_args >>
registryVars == << strategies, strategy_config_ids, update_calls >>
limiterVars == << requests, now, granted, allowed >>

\* index of the first element of s equal to x (list.remove takes the first)
FirstIndex(s, x) == CHOOSE i \in DOMAIN s : s[i] = x /\ \A j \in 1..(i - 1) : s[j] # x

\* Portfolio.add_position: positions.append(position)
add_position(p) ==
    /\ Len(portfolio.positions) < MaxPositions
    /\ portfolio' = [portfolio EXCEPT !.positions = Append(@, p)]
    /\ lastOp' = "add_position"
    /\ UNCHANGED << calculatorVars, registryVars, limiterVars,
                    thresholds, breaches, managerVars, selectVars >>

\* Portfolio.remove_position: removes the first equal position, if there is one
remove_position(p) ==
    /\ portfolio' = IF p \in Range(portfolio.positions)
                    THEN [portfolio EXCEPT
                            !.positions = RemoveAt(@, FirstIndex(@, p))]
                    ELSE portfolio
    /\ lastOp' = "remove_position"
    /\ UNCHANGED << calculatorVars, registryVars, limiterVars,
                    thresholds, breaches, managerVars, selectVars >>

\* the caller's in-place update  position.size = s
update_size(i, s) ==
    /\ i \in DOMAIN portfolio.positions
    /\ portfolio' = [portfolio EXCEPT !.positions[i].size = s]
    /\ lastOp' = "update_size"
    /\ UNCHANGED << calculatorVars, registryVars, limiterVars,
                    thresholds, breaches, managerVars, selectVars >>

\* the caller's in-place update  position.current_price = c
update_price(i, c) ==
    /\ i \in DOMAIN portfolio.positions
    /\ portfolio' = [portfolio EXCEPT !.positions[i].current_price = c]
    /\ lastOp' = "update_price"
    /\ UNCHANGED << calculatorVars, registryVars, limiterVars,
                    thresholds, breaches, managerVars, selectVars >>

\* A mutation of the check_breach call: it normalises the Greeks it reads
\* in place (pos.delta = pos.delta or 0.0) before summing them.
CallCheckBreachNormalising ==
    /\ breaches' = check_breach(thresholds, portfolio)
    /\ portfolio' = [portfolio EXCEPT !.positions =
                        [i \in DOMAIN @ |-> [@[i] EXCEPT !.delta = Some(OrZero(@))]]]
    /\ lastOp' = "check_breach"
    /\ UNCHANGED << calculatorVars, registryVars, limiterVars,
                    thresholds, managerVars, selectVars >>

\* thresholds.check_breach(portfolio): builds and returns a fresh map
CallCheckBreach ==
    /\ breaches' = check_breach(thresholds, portfolio)
    /\ lastOp' = "check_breach"
    /\ UNCHANGED << calculatorVars, registryVars, limiterVars,
                    portfolio, thresholds, managerVars, selectVars >>

-----------------------------------------------------------------------------
(* Texts, symbols, market data and recommendations                         *)

\* HedgeStrategy, in the order of the enum
HedgeStrategy == << "delta_neutral", "protective_put", "covered_call",
                    "collar", "pairs_trading", "futures_hedge" >>

\* f"[{strategy_type.value}] " : the fragment the manager puts before a reasoning
TagFragment(t) == "[" \o t \o "] "

\* The words the program looks for that a fragment contains once lower-cased.
\* The fragments written by the strategies and the facade hold no bracket.
FragmentWords(f) ==
    CASE f = "[delta_neutral] " -> { "delta", "neutral" }
      [] f = "[protective_put] " -> { "protective", "put" }
      [] f = "[covered_call] " -> { }
      [] f = "[collar] " -> { "collar" }
      [] f = "[pairs_trading] " -> { }
      [] f = "[futures_hedge] " -> { }
      [] f = "Delta hedge: neutralizing delta exposure" -> { "delta", "neutral" }
      [] f = "Protective put for long position" -> { "protective", "put" }
      [] f = "Collar strategy for position" -> { "collar" }
      [] f = "Basic delta-neutral hedge recommendation" -> { "delta", "neutral" }
      [] OTHER -> { }

\* word in text.lower()
ContainsWord(text, w) == \E i \in DOMAIN text : w \in FragmentWords(text[i])

\* f"[{t}]" in text
ContainsTag(text, t) == \E i \in DOMAIN text : text[i] = TagFragment(t)

\* symbol.split('_')[0].split('-')[0].split('/')[0]
BaseSymbol(sym) ==
    CASE sym = "AAPL_C160" -> "AAPL"
      [] sym = "ETH-USD" -> "ETH"
      [] sym = "ETH/USDT" -> "ETH"
      [] OTHER -> sym

\* f"{x:.0f}" of an amount of cents: whole dollars, halves to the even one
FormatDollars(c) ==
    LET q == c \div CENTS
        r == c % CENTS
    IN  ToString(IF r * 2 > CENTS \/ (r * 2 = CENTS /\ q % 2 = 1) THEN q + 1 ELSE q)

MarketData(sym, price, bid, ask) ==
    [ symbol |-> sym, price |-> price, bid |-> bid, ask |-> ask ]

HedgeRecommendation(sym, action, size, typ, strat, price, reasoning, urgency, cost, rr) ==
    [ symbol |-> sym, action |-> action, size |-> size, instrument_type |-> typ,
      strategy |-> strat, price |-> price, reasoning |-> reasoning,
      urgency |-> urgency, estimated_cost |-> cost, risk_reduction |-> rr ]

\* What a call gives back: a value, or an exception that left the call.
Returned(v) == [ ok |-> TRUE, val |-> v ]
Raised == [ ok |-> FALSE, val |-> << >> ]

-----------------------------------------------------------------------------
(* BaseHedgeStrategy (strategies/hedge_strategies.py)                      *)

HedgeConfig(strat, enabled, thr, ppd, cpd, ccd, mhc) ==
    [ strategy |-> strat, enabled |-> enabled,
      delta_threshold |-> thr,          \* QTY
      hedge_ratio |-> BP,               \* 1.0
      protective_put_delta |-> ppd,     \* BP
      collar_put_delta |-> cpd,         \* BP
      collar_call_delta |-> ccd,        \* BP
      max_hedge_cost |-> mhc,           \* BP of the position value
      max_slippage |-> 10 ]             \* 0.001

\* _determine_urgency; the severity is a ratio in BP
determine_urgency(severity) ==
    IF severity > 3 * BP THEN "CRITICAL"
    ELSE IF severity > 2 * BP THEN "HIGH"
    ELSE IF 2 * severity > 3 * BP THEN "MEDIUM"
    ELSE "LOW"

\* _calculate_risk_reduction: VaR reduction min(|hedge_delta| * 0.1, 0.5), in BP
calculate_risk_reduction(hedge_delta, hedge_gamma) ==
    [ delta_reduction |-> Abs(hedge_delta),
      gamma_reduction |-> Abs(hedge_gamma),
      var_reduction |-> Min((Abs(hedge_delta) * BP) \div (QTY * 10), BP \div 2) ]

\* the elements of s at their first occurrence, in order (keys of a dict
\* filled while walking s)
RECURSIVE FirstOccurrences(_)
FirstOccurrences(s) ==
    IF s = << >> THEN << >>
    ELSE LET front == FirstOccurrences(SubSeq(s, 1, Len(s) - 1))
             last == s[Len(s)]
         IN  IF last \in Range(front) THEN front ELSE Append(front, last)

RECURSIVE Flatten(_)
Flatten(ss) == IF ss = << >> THEN << >> ELSE Head(ss) \o Flatten(Tail(ss))

-----------------------------------------------------------------------------
(* DeltaNeutralStrategy                                                    *)

\* _select_hedge_instrument
select_hedge_instrument(sym) ==
    CASE sym = "AAPL" -> "QQQ"
      [] sym = "GOOGL" -> "QQQ"
      [] sym = "MSFT" -> "QQQ"
      [] sym = "TSLA" -> "QQQ"
      [] sym = "SPY" -> "ES=F"
      [] sym = "QQQ" -> "NQ=F"
      [] sym = "BTC-USD" -> "BTC/USDT"
      [] sym = "ETH-USD" -> "ETH/USDT"
      [] OTHER -> sym \o "-PERP"

\* _calculate_hedge_size_for_delta
calculate_hedge_size_for_delta(cfg, position, target_delta) ==
    LET current_delta == OrZero(position.delta)
        delta_to_hedge == current_delta - target_delta
    IN  ((-delta_to_hedge) * cfg.hedge_ratio) \div BP

\* A mutation of DeltaNeutralStrategy.analyze_position: a delta equal to the
\* threshold is not hedged.
DeltaNeutral_analyze_position_strict(cfg, position, market_data) ==
    LET current_delta == OrZero(position.delta)
        abs_delta == Abs(current_delta)
        hedge_size == calculate_hedge_size_for_delta(cfg, position, 0)
        hedge_cost == (Abs(hedge_size) * market_data.price) \div (QTY * 1000)
        risk_severity == (abs_delta * BP) \div cfg.delta_threshold
    IN  IF ~cfg.enabled THEN None
        ELSE IF abs_delta <= cfg.delta_threshold THEN None
        ELSE IF Abs(hedge_size) < QTY THEN None
        ELSE Some(HedgeRecommendation(
                select_hedge_instrument(position.symbol),
                IF hedge_size > 0 THEN "SELL" ELSE "BUY",
                Abs(hedge_size),
                "futures",
                None,
                Some(market_data.price),
                << "Delta hedge: neutralizing delta exposure" >>,
                determine_urgency(risk_severity),
                Some(hedge_cost),
                Some(calculate_risk_reduction(-current_delta, 0))))

\* DeltaNeutralStrategy.analyze_position: None or one recommendation
DeltaNeutral_analyze_position(cfg, position, market_data) ==
    LET current_delta == OrZero(position.delta)
        abs_delta == Abs(current_delta)
        hedge_size == calculate_hedge_size_for_delta(cfg, position, 0)
        hedge_cost == (Abs(hedge_size) * market_data.price) \div (QTY * 1000)
        risk_severity == (abs_delta * BP) \div cfg.delta_threshold
    IN  IF ~cfg.enabled THEN None
        ELSE IF abs_delta < cfg.delta_threshold THEN None
        ELSE IF Abs(hedge_size) < QTY THEN None
        ELSE Some(HedgeRecommendation(
                select_hedge_instrument(position.symbol),
                IF hedge_size > 0 THEN "SELL" ELSE "BUY",
                Abs(hedge_size),
                "futures",
                None,
                Some(market_data.price),
                << "Delta hedge: neutralizing delta exposure" >>,
                determine_urgency(risk_severity),
                Some(hedge_cost),
                Some(calculate_risk_reduction(-current_delta, 0))))

\* net delta of the positions whose base symbol is base
NetDelta(pf, base) ==
    SumSeq([i \in DOMAIN pf.positions |->
              IF BaseSymbol(pf.positions[i].symbol) = base
              THEN OrZero(pf.positions[i].delta) ELSE 0])

\* DeltaNeutralStrategy.analyze_portfolio; market_data maps symbols to MarketData
DeltaNeutral_analyze_portfolio(cfg, pf, market_data) ==
    LET bases == FirstOccurrences(
                    [i \in DOMAIN pf.positions |-> BaseSymbol(pf.positions[i].symbol)])
        ForAsset(sym) ==
            LET net_delta == NetDelta(pf, sym)
            IN  IF Abs(net_delta) > cfg.delta_threshold /\ sym \in DOMAIN market_data
                THEN DeltaNeutral_analyze_position(
                        cfg,
                        [ Position(sym, "spot", net_delta, market_data[sym].price,
                                   market_data[sym].price, None, None, None, None)
                          EXCEPT !.delta = Some(net_delta) ],
                        market_data[sym])
                ELSE None
    IN  IF Abs(total_delta(pf)) < cfg.delta_threshold THEN << >>
        ELSE Flatten([k \in DOMAIN bases |-> ForAsset(bases[k])])

-----------------------------------------------------------------------------
(* ProtectivePutStrategy and CollarStrategy                                *)

\* value * fraction, the fraction in BP (value in whole dollars, as cents)
FractionOf(value, bp) == ((value \div CENTS) * bp) \div (BP \div CENTS)

\* 0.25 * sqrt(days / 365.0) * 0.4, as cents per dollar of spot, in 1/1000:
\* 30 days give 0.0286691 dollars per dollar
TimeValueRate(days) == IF days = 30 THEN 2867 ELSE 0

\* _estimate_put_premium: intrinsic + spot * volatility * sqrt(T) * 0.4
estimate_put_premium(spot_price, strike_price, days_to_expiry) ==
    Max(strike_price - spot_price, 0)
        + ((spot_price \div CENTS) * TimeValueRate(days_to_expiry)) \div 1000

\* _estimate_call_premium
estimate_call_premium(spot_price, strike_price, days_to_expiry) ==
    Max(spot_price - strike_price, 0)
        + ((spot_price \div CENTS) * TimeValueRate(days_to_expiry)) \div 1000

\* positions grouped by symbol, in the order the symbols first appear:
\* long_positions[symbol] of the two option strategies
GroupSymbols(positions) ==
    FirstOccurrences([i \in DOMAIN positions |-> positions[i].symbol])

\* the aggregate position the option strategies build for one symbol group
AggregatePosition(positions, sym, price) ==
    LET total_size == SumSeq([i \in DOMAIN positions |->
                        IF positions[i].symbol = sym THEN positions[i].size ELSE 0])
        weighted == SumSeq([i \in DOMAIN positions |->
                        IF positions[i].symbol = sym
                        THEN (positions[i].entry_price \div CENTS) * positions[i].size
                        ELSE 0])
    IN  Position(sym, "spot", total_size, (weighted \div total_size) * CENTS, price,
                 None, None, None, None)

\* ProtectivePutStrategy.analyze_position
ProtectivePut_analyze_position(cfg, position, market_data) ==
    LET position_value == market_value(position)
        current_price == market_data.price
        put_strike == ((current_price \div CENTS) * (BP + cfg.protective_put_delta))
                        \div (BP \div CENTS)
        put_premium == estimate_put_premium(current_price, put_strike, 30)
        total_cost == (put_premium * position.size) \div QTY
        max_loss_with_hedge ==
            Max(0, ((current_price - put_strike) * position.size) \div QTY + total_cost)
        risk_reduction_value == position_value - max_loss_with_hedge
    IN  IF ~cfg.enabled \/ position.size <= 0 THEN None
        ELSE IF position_value < 10000 * CENTS THEN None
        ELSE IF total_cost > FractionOf(position_value, cfg.max_hedge_cost) THEN None
        ELSE Some(HedgeRecommendation(
                position.symbol \o "_PUT_" \o FormatDollars(put_strike),
                "BUY",
                position.size,
                "option_put",
                None,
                Some(put_premium),
                << "Protective put for long position" >>,
                "MEDIUM",
                Some(total_cost),
                Some([ downside_protection |-> risk_reduction_value,
                       max_loss_reduction |->
                           (risk_reduction_value * CENTS) \div (position_value \div CENTS),
                       cost_ratio |->
                           (total_cost * CENTS) \div (position_value \div CENTS) ])))

\* ProtectivePutStrategy.analyze_portfolio
ProtectivePut_analyze_portfolio(cfg, pf, market_data) ==
    LET long_positions ==
            SelectSeq(pf.positions, LAMBDA pos : pos.size > 0 /\ ~is_option(pos))
        symbols == GroupSymbols(long_positions)
        ForSymbol(sym) ==
            IF sym \in DOMAIN market_data
            THEN ProtectivePut_analyze_position(
                    cfg,
                    AggregatePosition(long_positions, sym, market_data[sym].price),
                    market_data[sym])
            ELSE None
    IN  Flatten([k \in DOMAIN symbols |-> ForSymbol(symbols[k])])

\* A mutation of CollarStrategy.analyze_position: the estimated cost is the
\* signed net cost.
Collar_analyze_position_signed(cfg, position, market_data) ==
    LET position_value == market_value(position)
        current_price == market_data.price
        put_strike == ((current_price \div CENTS) * (10 * BP + cfg.collar_put_delta))
                        \div ((10 * BP) \div CENTS)
        call_strike == ((current_price \div CENTS) * (10 * BP + cfg.collar_call_delta))
                        \div ((10 * BP) \div CENTS)
        put_premium == estimate_put_premium(current_price, put_strike, 30)
        call_premium == estimate_call_premium(current_price, call_strike, 30)
        net_cost == ((put_premium - call_premium) * position.size) \div QTY
        max_gain == ((call_strike - current_price) * position.size) \div QTY - net_cost
    IN  IF ~cfg.enabled \/ position.size <= 0 THEN None
        ELSE IF position_value < 25000 * CENTS THEN None
        ELSE IF net_cost > FractionOf(position_value, cfg.max_hedge_cost) THEN None
        ELSE Some(HedgeRecommendation(
                position.symbol \o "_COLLAR_" \o FormatDollars(put_strike)
                    \o "_" \o FormatDollars(call_strike),
                "COLLAR",
                position.size,
                "option_call",
                None,
                Some((put_premium + call_premium) \div 2),
                << "Collar strategy for position" >>,
                "MEDIUM",
                Some(net_cost),
                Some([ downside_protection |->
                           ((current_price - put_strike) * position.size) \div QTY,
                       upside_cap |-> max_gain,
                       net_cost |-> net_cost,
                       cost_ratio |-> (net_cost * CENTS) \div (position_value \div CENTS) ])))

\* CollarStrategy.analyze_position
Collar_analyze_position(cfg, position, market_data) ==
    LET position_value == market_value(position)
        current_price == market_data.price
        put_strike == ((current_price \div CENTS) * (10 * BP + cfg.collar_put_delta))
                        \div ((10 * BP) \div CENTS)
        call_strike == ((current_price \div CENTS) * (10 * BP + cfg.collar_call_delta))
                        \div ((10 * BP) \div CENTS)
        put_premium == estimate_put_premium(current_price, put_strike, 30)
        call_premium == estimate_call_premium(current_price, call_strike, 30)
        net_cost == ((put_premium - call_premium) * position.size) \div QTY
        max_gain == ((call_strike - current_price) * position.size) \div QTY - net_cost
    IN  IF ~cfg.enabled \/ position.size <= 0 THEN None
        ELSE IF position_value < 25000 * CENTS THEN None
        ELSE IF net_cost > FractionOf(position_value, cfg.max_hedge_cost) THEN None
        ELSE Some(HedgeRecommendation(
                position.symbol \o "_COLLAR_" \o FormatDollars(put_strike)
                    \o "_" \o FormatDollars(call_strike),
                "COLLAR",
                position.size,
                "option_call",
                None,
                Some((put_premium + call_premium) \div 2),
                << "Collar strategy for position" >>,
                "MEDIUM",
                Some(Abs(net_cost)),
                Some([ downside_protection |->
                           ((current_price - put_strike) * position.size) \div QTY,
                       upside_cap |-> max_gain,
                       net_cost |-> net_cost,
                       cost_ratio |-> (net_cost * CENTS) \div (position_value \div CENTS) ])))

\* CollarStrategy.analyze_portfolio
Collar_analyze_portfolio(cfg, pf, market_data) ==
    LET long_positions ==
            SelectSeq(pf.positions,
                      LAMBDA pos : pos.size > 0 /\ ~is_option(pos)
                                     /\ market_value(pos) > 25000 * CENTS)
        symbols == GroupSymbols(long_positions)
        ForSymbol(sym) ==
            IF sym \in DOMAIN market_data
            THEN Collar_analyze_position(
                    cfg,
                    AggregatePosition(long_positions, sym, market_data[sym].price),
                    market_data[sym])
            ELSE None
    IN  Flatten([k \in DOMAIN symbols |-> ForSymbol(symbols[k])])

\* strategy.analyze_portfolio(portfolio, market_data) of the registered strategy
Strategy_analyze_portfolio(t, cfg, pf, market_data) ==
    CASE t = "delta_neutral" -> DeltaNeutral_analyze_portfolio(cfg, pf, market_data)
      [] t = "protective_put" -> ProtectivePut_analyze_portfolio(cfg, pf, market_data)
      [] t = "collar" -> Collar_analyze_portfolio(cfg, pf, market_data)

-----------------------------------------------------------------------------
(* StrategyManager (strategies/strategy_manager.py)                        *)

\* greatest common divisor of two naturals
RECURSIVE GCD(_, _)
GCD(a, b) == IF b = 0 THEN a ELSE GCD(b, a % b)

\* the float n / d (n >= 0, d > 0) as a fraction in lowest terms
Ratio(n, d) ==
    LET g == GCD(n, d) IN [ num |-> n \div g, den |-> d \div g ]

\* StrategyPerformance(strategy_name): the counters start at zero.  Money in
\* cents, risk reduction in 1/10000, times in 1/100 s; the two rates are
\* fractions in lowest terms (0.0 is 0/1).
StrategyPerformance ==
    [ total_recommendations |-> 0, executed_recommendations |-> 0,
      total_cost |-> 0, total_risk_reduction |-> 0,
      success_rate |-> Ratio(0, 1), avg_execution_time |-> Ratio(0, 1) ]

\* StrategyPerformance.execution_rate
execution_rate(perf) ==
    IF perf.total_recommendations = 0 THEN Ratio(0, 1)
    ELSE Ratio(perf.executed_recommendations, perf.total_recommendations)

\* _initialize_default_strategies: the three configs, in the order added
DefaultConfigs ==
    [ delta_neutral |-> HedgeConfig("delta_neutral", TRUE, 10, -2000, -2000, 3000, 50),
      protective_put |-> HedgeConfig("protective_put", TRUE, 10, -2000, -2000, 3000, 200),
      collar |-> HedgeConfig("collar", TRUE, 10, -2000, -2000, 3000, 150) ]

DefaultOrder == << "delta_neutral", "protective_put", "collar" >>

\* rec.reasoning = f"[{strategy_type.value}] {rec.reasoning}"
TagRecommendation(t, rec) ==
    [rec EXCEPT !.reasoning = << TagFragment(t) >> \o @]

\* A mutation of the loop body of analyze_portfolio: the counters are
\* updated before the strategy is called, so a raise leaves them changed.
AnalyzeStrategyCountingFirst(t, acc, configs, pf, market_data, failing) ==
    IF ~configs[t].enabled THEN acc
    ELSE IF t \in failing
    THEN [acc EXCEPT !.invoked = @ \cup {t}, !.raised = @ \cup {t},
                     !.perf[t].total_recommendations = @ + 1]
    ELSE LET out == Strategy_analyze_portfolio(t, configs[t], pf, market_data)
         IN  [acc EXCEPT !.invoked = @ \cup {t},
                         !.recs = @ \o [i \in DOMAIN out |-> TagRecommendation(t, out[i])],
                         !.perf[t].total_recommendations = @ + Len(out)]

\* One pass of the loop of analyze_portfolio over strategy t.  failing is the
\* set of strategies whose analyze_portfolio raises on this input; the except
\* clause logs the error and the loop goes on.
AnalyzeStrategy(t, acc, configs, pf, market_data, failing) ==
    IF ~configs[t].enabled THEN acc
    ELSE IF t \in failing
    THEN [acc EXCEPT !.invoked = @ \cup {t}, !.raised = @ \cup {t}]
    ELSE LET out == Strategy_analyze_portfolio(t, configs[t], pf, market_data)
         IN  [acc EXCEPT !.invoked = @ \cup {t},
                         !.recs = @ \o [i \in DOMAIN out |-> TagRecommendation(t, out[i])],
                         !.perf[t].total_recommendations = @ + Len(out)]

RECURSIVE AnalyzeLoop(_, _, _, _, _, _)
AnalyzeLoop(order, acc, configs, pf, market_data, failing) ==
    IF order = << >> THEN acc
    ELSE AnalyzeLoop(Tail(order),
                     AnalyzeStrategy(Head(order), acc, configs, pf, market_data, failing),
                     configs, pf, market_data, failing)

\* A mutation of analyze_portfolio: the breach check is skipped.
analyze_portfolio_unguarded(order, configs, perf, th, pf, market_data, failing) ==
    AnalyzeLoop(order, [ recs |-> << >>, perf |-> perf, invoked |-> {}, raised |-> {} ],
                configs, pf, market_data, failing)

\* StrategyManager.analyze_portfolio: the list returned, the counters after
\* the call, and which strategies were called / raised
analyze_portfolio(order, configs, perf, th, pf, market_data, failing) ==
    LET start == [ recs |-> << >>, perf |-> perf, invoked |-> {}, raised |-> {} ]
    IN  IF ~AnyBreach(check_breach(th, pf)) THEN start
        ELSE AnalyzeLoop(order, start, configs, pf, market_data, failing)

\* the map get_hedge_recommendations builds when market_data is None
SynthesizedMarketData(pf) ==
    [ sym \in { pf.positions[i].symbol : i \in DOMAIN pf.positions } |->
        LET last == CHOOSE i \in DOMAIN pf.positions :
                        /\ pf.positions[i].symbol = sym
                        /\ \A j \in DOMAIN pf.positions :
                              pf.positions[j].symbol = sym => j <= i
        IN  MarketData(sym, pf.positions[last].current_price, None, None) ]

\* the "basic" recommendation of get_hedge_recommendations
BasicRecommendation(position) ==
    HedgeRecommendation(
        position.symbol,
        "SELL",
        position.size \div 2,
        "spot",
        Some("DELTA_NEUTRAL"),
        None,
        << "Basic delta-neutral hedge recommendation" >>,
        "MEDIUM",
        Some(FractionOf(market_value(position), 50)),
        Some([ delta_reduction |-> QTY \div 2, var_reduction |-> BP \div 5 ]))

\* A mutation of get_hedge_recommendations: no fallback recommendation.
get_hedge_recommendations_plain(order, configs, perf, th, pf, market_data, failing) ==
    analyze_portfolio(order, configs, perf, th, pf,
                      IF IsNone(market_data) THEN SynthesizedMarketData(pf)
                      ELSE market_data[1], failing)

\* StrategyManager.get_hedge_recommendations; market_data is None or Some(map)
get_hedge_recommendations(order, configs, perf, th, pf, market_data, failing) ==
    LET md == IF IsNone(market_data) THEN SynthesizedMarketData(pf)
              ELSE market_data[1]
        res == analyze_portfolio(order, configs, perf, th, pf, md, failing)
    IN  IF res.recs = << >> /\ pf.positions # << >>
        THEN [res EXCEPT !.recs = << BasicRecommendation(pf.positions[1]) >>]
        ELSE res

-----------------------------------------------------------------------------
(* Ranking (strategies/strategy_manager.py, BaseHedgeStrategy)             *)

\* BaseHedgeStrategy.estimate_execution_cost and ExecutionCost.__post_init__.
\* The division by notional_value raises when the notional is zero; the
\* cost_percentage it computes is read by nothing in the engine.
estimate_execution_cost(cfg, recommendation, market_data) ==
    LET price == IF OrZero(recommendation.price) # 0 THEN recommendation.price[1]
                 ELSE market_data.price
        notional_value == Abs((recommendation.size * price) \div QTY)
        spread_cost ==
            IF OrZero(market_data.bid) # 0 /\ OrZero(market_data.ask) # 0
            THEN ((market_data.ask[1] - market_data.bid[1]) * Abs(recommendation.size))
                    \div (2 * QTY)
            ELSE 0
        slippage_cost == (notional_value * cfg.max_slippage) \div BP
        commission_cost == Max(notional_value \div BP, CENTS)
        market_impact_cost ==
            IF notional_value > 100000 * CENTS THEN (notional_value * 5) \div BP ELSE 0
        estimated_cost == OrZero(recommendation.estimated_cost)
    IN  IF notional_value = 0 THEN Raised
        ELSE Returned([ strategy |-> cfg.strategy,
                        estimated_cost |-> estimated_cost,
                        bid_ask_spread_cost |-> spread_cost,
                        slippage_cost |-> slippage_cost,
                        commission_cost |-> commission_cost,
                        market_impact_cost |-> market_impact_cost,
                        total_cost |-> estimated_cost + spread_cost + slippage_cost
                                         + commission_cost + market_impact_cost ])

\* A mutation of _extract_strategy_type: the return has left the if, so the
\* first member of the enum is returned whatever the text holds.
extract_strategy_type_first(reasoning) == Some(HedgeStrategy[1])

\* _extract_strategy_type: None or the strategy type
extract_strategy_type(reasoning) ==
    LET tagged == { k \in DOMAIN HedgeStrategy : ContainsTag(reasoning, HedgeStrategy[k]) }
    IN  IF tagged # {}
        THEN Some(HedgeStrategy[CHOOSE k \in tagged : \A j \in tagged : k <= j])
        ELSE IF ContainsWord(reasoning, "delta") /\ ContainsWord(reasoning, "neutral")
        THEN Some("delta_neutral")
        ELSE IF ContainsWord(reasoning, "protective") /\ ContainsWord(reasoning, "put")
        THEN Some("protective_put")
        ELSE IF ContainsWord(reasoning, "collar") THEN Some("collar")
        ELSE None

\* rec.risk_reduction.get(key, 0)
RiskReductionGet(rr, key) == IF key \in DOMAIN rr THEN rr[key] ELSE 0

\* A mutation of _calculate_effectiveness_score: the delta score is not
\* capped at 1.0.
calculate_effectiveness_score_uncapped(rec, pf) ==
    IF IsNone(rec.risk_reduction) THEN BP \div 2
    ELSE LET delta_reduction == RiskReductionGet(rec.risk_reduction[1], "delta_reduction")
             var_reduction == RiskReductionGet(rec.risk_reduction[1], "var_reduction")
             portfolio_delta == Abs(total_delta(pf))
             delta_score == (delta_reduction * BP) \div Max(portfolio_delta, QTY \div 10)
             var_score == var_reduction * 2
         IN  (delta_score + var_score) \div 2

\* _calculate_effectiveness_score, in BP
calculate_effectiveness_score(rec, pf) ==
    IF IsNone(rec.risk_reduction) THEN BP \div 2
    ELSE LET delta_reduction == RiskReductionGet(rec.risk_reduction[1], "delta_reduction")
             var_reduction == RiskReductionGet(rec.risk_reduction[1], "var_reduction")
             portfolio_delta == Abs(total_delta(pf))
             delta_score == Min((delta_reduction * BP) \div Max(portfolio_delta, QTY \div 10),
                                BP)
             var_score == var_reduction * 2
         IN  (delta_score + var_score) \div 2

\* _calculate_urgency_score, in BP
calculate_urgency_score(rec) ==
    CASE rec.urgency = "LOW" -> BP \div 4
      [] rec.urgency = "MEDIUM" -> BP \div 2
      [] rec.urgency = "HIGH" -> (3 * BP) \div 4
      [] rec.urgency = "CRITICAL" -> BP
      [] OTHER -> BP \div 2

\* _calculate_cost_score, in BP: max(0.0, 1.0 - cost_ratio * 20)
calculate_cost_score(exec_cost, pf) ==
    LET portfolio_value == Abs(total_market_value(pf))
    IN  IF portfolio_value = 0 THEN 0
        ELSE Max(0, BP - (exec_cost.total_cost * 20 * CENTS) \div (portfolio_value \div CENTS))

\* StrategyRanking and its __post_init__: total_score = 0.4 e + 0.3 u + 0.3 c,
\* in 1/100000.  recommendation is the reference to the recommendation object:
\* its index in the list the caller passed.
StrategyRanking(strategy, ref, cost, e, u, c) ==
    [ strategy |-> strategy, recommendation |-> ref, cost |-> cost,
      effectiveness_score |-> e, urgency_score |-> u, cost_score |-> c,
      total_score |-> 4 * e + 3 * u + 3 * c ]

\* One pass of the loop of rank_recommendations: the ranking of recs[ref], or
\* nothing when the pass raised and the except clause went on to the next.
\* In the else branch ExecutionCost(...) is built with transaction_costs,
\* bid_ask_spread and market_impact, which are not fields of ExecutionCost:
\* the constructor raises TypeError.
RankOne(registered, configs, recs, ref, pf, market_data) ==
    LET rec == recs[ref]
        strategy_type == extract_strategy_type(rec.reasoning)
    IN  IF ~IsNone(strategy_type) /\ strategy_type[1] \in registered
        THEN LET hedge_market_data ==
                     IF rec.symbol \in DOMAIN market_data THEN market_data[rec.symbol]
                     ELSE MarketData(rec.symbol, OrZero(rec.price), None, None)
                 exec_cost == estimate_execution_cost(configs[strategy_type[1]], rec,
                                                      hedge_market_data)
             IN  IF ~exec_cost.ok THEN << >>
                 ELSE << StrategyRanking(strategy_type[1], ref, exec_cost.val,
                                         calculate_effectiveness_score(rec, pf),
                                         calculate_urgency_score(rec),
                                         calculate_cost_score(exec_cost.val, pf)) >>
        ELSE << >>

\* A mutation of the sort: ascending stable sort, then reversed, which turns
\* the order of equal scores around.
InsertRankingBeforeEqual(sorted, x) ==
    LET before == { i \in DOMAIN sorted : sorted[i].total_score > x.total_score }
        n == Cardinality(before)
    IN  SubSeq(sorted, 1, n) \o << x >> \o SubSeq(sorted, n + 1, Len(sorted))

\* list.sort(key=total_score, reverse=True), one element at a time: x goes
\* after every element whose score is at least its own (the sort is stable)
InsertRanking(sorted, x) ==
    LET before == { i \in DOMAIN sorted : sorted[i].total_score >= x.total_score }
        n == Cardinality(before)
    IN  SubSeq(sorted, 1, n) \o << x >> \o SubSeq(sorted, n + 1, Len(sorted))

RECURSIVE SortRankings(_)
SortRankings(rs) ==
    IF rs = << >> THEN << >>
    ELSE InsertRanking(SortRankings(SubSeq(rs, 1, Len(rs) - 1)), rs[Len(rs)])

\* StrategyManager.rank_recommendations
rank_recommendations(registered, configs, recs, pf, market_data) ==
    SortRankings(Flatten([ref \in DOMAIN recs |->
                            RankOne(registered, configs, recs, ref, pf, market_data)]))

-----------------------------------------------------------------------------
(* Selection (strategies/strategy_manager.py)                              *)

\* _get_risk_type
get_risk_type(rec) ==
    IF ContainsWord(rec.reasoning, "delta") THEN "delta"
    ELSE IF ContainsWord(rec.reasoning, "protective") THEN "downside"
    ELSE IF ContainsWord(rec.reasoning, "collar") THEN "volatility"
    ELSE "general"

\* A mutation of the loop body of select_optimal_hedges: a covered risk type
\* is never hedged twice, whatever the score.
SelectStepNoOverride(acc, ranking, recs, max_hedge_cost) ==
    LET cost == ranking.cost.total_cost
        risk_type == get_risk_type(recs[ranking.recommendation])
    IN  IF acc.total_cost + cost > max_hedge_cost THEN acc
        ELSE IF risk_type \notin acc.covered_risks
        THEN [ selected_hedges |-> Append(acc.selected_hedges, ranking.recommendation),
               total_cost |-> acc.total_cost + cost,
               covered_risks |-> acc.covered_risks \cup { risk_type } ]
        ELSE acc

\* One pass of the loop of select_optimal_hedges; 0.8 is 8 * BP in the unit
\* of total_score
SelectStep(acc, ranking, recs, max_hedge_cost) ==
    LET cost == ranking.cost.total_cost
        risk_type == get_risk_type(recs[ranking.recommendation])
        should_add == \/ risk_type \notin acc.covered_risks
                      \/ ranking.total_score > 8 * BP
    IN  IF acc.total_cost + cost > max_hedge_cost THEN acc
        ELSE IF should_add
        THEN [ selected_hedges |-> Append(acc.selected_hedges, ranking.recommendation),
               total_cost |-> acc.total_cost + cost,
               covered_risks |-> acc.covered_risks \cup { risk_type } ]
        ELSE acc

RECURSIVE SelectLoop(_, _, _, _)
SelectLoop(rs, acc, recs, max_hedge_cost) ==
    IF rs = << >> THEN acc
    ELSE SelectLoop(Tail(rs), SelectStep(acc, Head(rs), recs, max_hedge_cost),
                    recs, max_hedge_cost)

\* A mutation of select_optimal_hedges: "if not max_hedge_cost" in place of
\* "if max_hedge_cost is None", so a budget of 0 gets the default.
select_optimal_hedges_falsy_budget(registered, configs, recs, pf, market_data, max_hedge_cost) ==
    LET rs == rank_recommendations(registered, configs, recs, pf, market_data)
        budget == IF OrZero(max_hedge_cost) = 0
                  THEN FractionOf(Abs(total_market_value(pf)), 200)
                  ELSE max_hedge_cost[1]
        start == [ selected_hedges |-> << >>, total_cost |-> 0, covered_risks |-> {} ]
    IN  IF recs = << >> THEN [ rankings |-> << >>, selected |-> << >> ]
        ELSE IF rs = << >> THEN [ rankings |-> rs, selected |-> << >> ]
        ELSE [ rankings |-> rs,
               selected |-> SelectLoop(rs, start, recs, budget).selected_hedges ]

\* StrategyManager.select_optimal_hedges; max_hedge_cost is None or Some(cents).
\* The list returned holds references into recs; rankings is the ranked list
\* the call walked.
select_optimal_hedges(registered, configs, recs, pf, market_data, max_hedge_cost) ==
    LET rs == rank_recommendations(registered, configs, recs, pf, market_data)
        budget == IF IsNone(max_hedge_cost)
                  THEN FractionOf(Abs(total_market_value(pf)), 200)
                  ELSE max_hedge_cost[1]
        start == [ selected_hedges |-> << >>, total_cost |-> 0, covered_risks |-> {} ]
    IN  IF recs = << >> THEN [ rankings |-> << >>, selected |-> << >> ]
        ELSE IF rs = << >> THEN [ rankings |-> rs, selected |-> << >> ]
        ELSE [ rankings |-> rs,
               selected |-> SelectLoop(rs, start, recs, budget).selected_hedges ]

-----------------------------------------------------------------------------
(* Inputs of the manager operations                                        *)

MaxTotalRecommendations == 1

\* Positions whose Greeks the caller has set (spot delta 1.0, as the risk
\* calculator and the tests set it; 0.05 for a delta under every cap).
ManagerPositionPool ==
    { Position("AAPL", "spot", 200 * QTY, 140 * CENTS, 150 * CENTS,
               Some(QTY), Some(0), Some(0), Some(0)),
      Position("GOOGL", "spot", -(10 * QTY), 2800 * CENTS, 2800 * CENTS,
               Some(-QTY), Some(0), Some(0), Some(0)),
      Position("AAPL", "spot", 10 * QTY, 150 * CENTS, 150 * CENTS,
               Some(5), None, None, None) }

\* the portfolios the manager is asked about: empty, one position, two
ManagerPortfolioSet ==
    { [ positions |-> ps, cash |-> 0 ] :
        ps \in { << >> } \cup { << p >> : p \in ManagerPositionPool }
               \cup { << p, q >> : p, q \in ManagerPositionPool } }

RECURSIVE SeqsUpTo(_, _)
SeqsUpTo(S, n) ==
    IF n = 0 THEN { << >> }
    ELSE LET shorter == SeqsUpTo(S, n - 1)
         IN  shorter \cup { Append(q, x) : q \in shorter, x \in S }

MarketDataFull ==
    [ sym \in { "AAPL", "GOOGL", "QQQ" } |->
        CASE sym = "AAPL" -> MarketData("AAPL", 150 * CENTS, None, None)
          [] sym = "GOOGL" -> MarketData("GOOGL", 2800 * CENTS, None, None)
          [] sym = "QQQ" -> MarketData("QQQ", 400 * CENTS,
                                       Some(39990), Some(40010)) ]

MarketDataHedgeOnly ==
    [ sym \in { "QQQ" } |-> MarketData("QQQ", 400 * CENTS, Some(39990), Some(40010)) ]

MarketDataSet == { MarketDataFull, MarketDataHedgeOnly }

\* the configs of a new manager, and the same with the protective-put cost
\* cap a caller raises to 5% (strategy_configs[...].max_hedge_cost = 0.05)
ConfigSet ==
    { DefaultConfigs, [DefaultConfigs EXCEPT !.protective_put.max_hedge_cost = 500] }

-----------------------------------------------------------------------------
(* Inputs of ranking and selection                                         *)

MaxRecs == 3

\* The portfolio the recommendations below were made for
HedgedPortfolio ==
    [ positions |-> << Position("AAPL", "spot", 200 * QTY, 140 * CENTS, 150 * CENTS,
                                Some(QTY), Some(0), Some(0), Some(0)) >>,
      cash |-> 0 ]

ShortPortfolio ==
    [ positions |-> << Position("GOOGL", "spot", -(10 * QTY), 2800 * CENTS, 2800 * CENTS,
                                Some(-QTY), Some(0), Some(0), Some(0)) >>,
      cash |-> 0 ]

SelectPortfolioSet == { [ positions |-> << >>, cash |-> 0 ], HedgedPortfolio, ShortPortfolio }

\* What analyze_portfolio returns for HedgedPortfolio once the protective-put
\* cap is 5%: one tagged recommendation of each registered strategy
AnalysedRecommendations ==
    analyze_portfolio(DefaultOrder,
                      [DefaultConfigs EXCEPT !.protective_put.max_hedge_cost = 500],
                      [ t \in Range(DefaultOrder) |-> StrategyPerformance ],
                      DefaultThresholds, HedgedPortfolio, MarketDataFull, {}).recs

\* Recommendations a caller passes: the analysed ones, the first of them at
\* a lower urgency, the basic ones of the facade for a long and for a short
\* position (the latter has a negative estimated cost), and one no strategy
\* wrote
SelectRecPool ==
    Range(AnalysedRecommendations) \cup
    { [AnalysedRecommendations[1] EXCEPT !.urgency = "LOW"],
      BasicRecommendation(HedgedPortfolio.positions[1]),
      BasicRecommendation(ShortPortfolio.positions[1]),
      HedgeRecommendation("AAPL", "SELL", 10 * QTY, "spot", None, Some(150 * CENTS),
                          << "Rebalance exposure" >>, "HIGH", Some(5 * CENTS), None) }

\* budgets a caller passes: omitted, zero, the cost of the cheapest hedge to
\* the cent, and one that fits everything
BudgetSet == { None, Some(0), Some(140), Some(1000 * CENTS) }

-----------------------------------------------------------------------------
(* Manager operations                                                      *)

Registered == Range(strategy_order)

\* the strategies that raise in one call: none, or one of the registered ones
FailingSets == { {} } \cup { {t} : t \in Registered }

\* strategy types a caller names: the registered ones and one that is not
NamedStrategies == Registered \cup { "covered_call" }

\* The call manager.analyze_portfolio(portfolio, market_data)
AnalyzePortfolio ==
    \E md \in MarketDataSet, failing \in FailingSets :
        LET res == analyze_portfolio(strategy_order, strategy_configs,
                                     strategy_performance, thresholds, portfolio,
                                     md, failing)
        IN  /\ SumSeq([i \in DOMAIN strategy_order |->
                         strategy_performance[strategy_order[i]].total_recommendations])
                 <= MaxTotalRecommendations
            /\ recommendations' = res.recs
            /\ strategy_performance' = res.perf
            /\ invoked' = res.invoked
            /\ raised' = res.raised
            /\ call_market_data' = Some(md)
            /\ lastOp' = "analyze_portfolio"
            /\ UNCHANGED << calculatorVars, registryVars, limiterVars,
                            portfolio, thresholds, breaches, strategy_order,
                            strategy_configs, selectVars >>

\* The call manager.get_hedge_recommendations(portfolio, market_data=None)
GetHedgeRecommendations ==
    \E md \in { None } \cup { Some(m) : m \in MarketDataSet },
       failing \in FailingSets :
        LET res == get_hedge_recommendations(strategy_order, strategy_configs,
                                             strategy_performance, thresholds,
                                             portfolio, md, failing)
        IN  /\ SumSeq([i \in DOMAIN strategy_order |->
                         strategy_performance[strategy_order[i]].total_recommendations])
                 <= MaxTotalRecommendations
            /\ recommendations' = res.recs
            /\ strategy_performance' = res.perf
            /\ invoked' = res.invoked
            /\ raised' = res.raised
            /\ call_market_data' = md
            /\ lastOp' = "get_hedge_recommendations"
            /\ UNCHANGED << calculatorVars, registryVars, limiterVars,
                            portfolio, thresholds, breaches, strategy_order,
                            strategy_configs, selectVars >>

\* what the model remembers of the last analysis call, once another
\* operation has followed it
NoCallObserved ==
    /\ recommendations' = << >>
    /\ invoked' = {}
    /\ raised' = {}
    /\ call_market_data' = None

\* A mutation of enable_strategy: the flag is written to every registered
\* strategy's config.
enable_strategy_every(t, enabled) ==
    /\ strategy_configs' = IF t \in DOMAIN strategy_configs
                           THEN [ u \in DOMAIN strategy_configs |->
                                    [strategy_configs[u] EXCEPT !.enabled = enabled] ]
                           ELSE strategy_configs
    /\ lastOp' = "enable_strategy"
    /\ NoCallObserved
    /\ UNCHANGED << calculatorVars, registryVars, limiterVars,
                    portfolio, thresholds, breaches, strategy_order,
                    strategy_performance, selectVars >>

\* StrategyManager.enable_strategy
enable_strategy(t, enabled) ==
    /\ strategy_configs' = IF t \in DOMAIN strategy_configs
                           THEN [strategy_configs EXCEPT ![t].enabled = enabled]
                           ELSE strategy_configs
    /\ lastOp' = "enable_strategy"
    /\ NoCallObserved
    /\ UNCHANGED << calculatorVars, registryVars, limiterVars,
                    portfolio, thresholds, breaches, strategy_order,
                    strategy_performance, selectVars >>

\* The call manager.rank_recommendations(recommendations, portfolio, market_data)
RankRecommendations ==
    /\ rankings' = rank_recommendations(Registered, strategy_configs, call_recs,
                                        portfolio, call_market_data[1])
    /\ selected' = << >>
    /\ lastOp' = "rank_recommendations"
    /\ UNCHANGED << calculatorVars, registryVars, limiterVars,
                    portfolio, thresholds, breaches, managerVars,
                    call_recs, call_budget >>

\* The call manager.select_optimal_hedges(recommendations, portfolio,
\* market_data, max_hedge_cost)
SelectOptimalHedges ==
    LET res == select_optimal_hedges(Registered, strategy_configs, call_recs,
                                     portfolio, call_market_data[1], call_budget)
    IN  /\ rankings' = res.rankings
        /\ selected' = res.selected
        /\ lastOp' = "select_optimal_hedges"
        /\ UNCHANGED << calculatorVars, registryVars, limiterVars,
                        portfolio, thresholds, breaches, managerVars, call_recs,
                        call_budget >>

-----------------------------------------------------------------------------
(* Specifications                                                          *)

ManagerInit ==
    /\ strategy_order = DefaultOrder
    /\ strategy_performance = [ t \in Range(DefaultOrder) |-> StrategyPerformance ]
    /\ recommendations = << >>
    /\ invoked = {}
    /\ raised = {}
    /\ call_market_data = None

SelectInit ==
    /\ call_recs = << >>
    /\ call_budget = None
    /\ rankings = << >>
    /\ selected = << >>

CalculatorInit ==
    /\ call_position = None
    /\ calc_result = Returned(None)
    /\ call_args = None

\* the registry as _initialize_default_strategies leaves it: each strategy
\* was built on a config object of its own; no update call yet
RegistryInit ==
    /\ strategies = [ t \in Range(DefaultOrder) |->
                        CHOOSE i \in DOMAIN DefaultOrder : DefaultOrder[i] = t ]
    /\ strategy_config_ids = strategies
    /\ update_calls = << >>

\* RateLimiter.__init__: no request seen; the clock starts at 0
LimiterInit ==
    /\ requests = << >>
    /\ now = 0
    /\ granted = << >>
    /\ allowed = None

\* The portfolio and its thresholds under the caller's operations
InitPortfolio ==
    /\ portfolio \in { [ positions |-> << >>, cash |-> c ] : c \in CashSet }
    /\ thresholds \in ThresholdSet
    /\ breaches = NoBreaches
    /\ lastOp = "init"
    /\ strategy_configs = DefaultConfigs
    /\ ManagerInit
    /\ SelectInit
    /\ CalculatorInit
    /\ RegistryInit
    /\ LimiterInit

NextPortfolio ==
    \/ \E p \in PositionPool : add_position(p)
    \/ \E p \in PositionPool \cup Range(portfolio.positions) : remove_position(p)
    \/ \E i \in 1..MaxPositions, s \in SizeSet : update_size(i, s)
    \/ \E i \in 1..MaxPositions, c \in PriceSet : update_price(i, c)
    \/ CallCheckBreach

SpecPortfolio == InitPortfolio /\ [][NextPortfolio]_vars

\* A manager over a portfolio the caller has filled
InitManager ==
    /\ portfolio \in ManagerPortfolioSet
    /\ thresholds = DefaultThresholds
    /\ breaches = NoBreaches
    /\ lastOp = "init"
    /\ strategy_configs \in ConfigSet
    /\ ManagerInit
    /\ SelectInit
    /\ CalculatorInit
    /\ RegistryInit
    /\ LimiterInit

NextManager ==
    \/ AnalyzePortfolio
    \/ GetHedgeRecommendations
    \/ \E t \in NamedStrategies, e \in BOOLEAN : enable_strategy(t, e)

SpecManager == InitManager /\ [][NextManager]_vars

\* Ranking and selection of a list of recommendations a caller holds
InitSelect ==
    /\ portfolio \in SelectPortfolioSet
    /\ thresholds = DefaultThresholds
    /\ breaches = NoBreaches
    /\ lastOp = "init"
    /\ strategy_configs = DefaultConfigs
    /\ strategy_order = DefaultOrder
    /\ strategy_performance = [ t \in Range(DefaultOrder) |-> StrategyPerformance ]
    /\ recommendations = << >>
    /\ invoked = {}
    /\ raised = {}
    /\ call_market_data \in { Some(m) : m \in MarketDataSet }
    /\ call_recs \in SeqsUpTo(SelectRecPool, MaxRecs)
    /\ call_budget \in BudgetSet
    /\ rankings = << >>
    /\ selected = << >>
    /\ CalculatorInit
    /\ RegistryInit
    /\ LimiterInit

NextSelect ==
    \/ RankRecommendations
    \/ SelectOptimalHedges

SpecSelect == InitSelect /\ [][NextSelect]_vars

-----------------------------------------------------------------------------
(* Properties                                                              *)

\* the sum of f over the set S of its arguments
RECURSIVE SumOver(_, _)
SumOver(f, S) ==
    IF S = {} THEN 0
    ELSE LET x == CHOOSE y \in S : TRUE
         IN  f[x] + SumOver(f, S \ {x})

\* size * current_price of the i-th position, in cents
ValueAt(i) ==
    (portfolio.positions[i].size * portfolio.positions[i].current_price) \div QTY

\* the sum of one Greek over the positions, a Greek not computed counting 0
GreekSum(g) ==
    SumOver([i \in DOMAIN portfolio.positions |->
               IF portfolio.positions[i][g] = << >> THEN 0
               ELSE portfolio.positions[i][g][1]],
            DOMAIN portfolio.positions)

\* the sum of the positions' values plus cash
ValueSum ==
    SumOver([i \in DOMAIN portfolio.positions |-> ValueAt(i)],
            DOMAIN portfolio.positions) + portfolio.cash

\* the budget select_optimal_hedges is bound by: the one supplied, zero
\* included, else 2% of |total market value|
EffectiveBudget ==
    IF call_budget = << >> THEN (Abs(ValueSum) * 2) \div 100 ELSE call_budget[1]

\* the places of the ranked list whose recommendation was returned
Accepted == { k \in DOMAIN rankings : rankings[k].recommendation \in Range(selected) }

\* cost accepted, and risk types covered, before place k of the ranked list
SpentBefore(k) ==
    SumOver([j \in DOMAIN rankings |-> rankings[j].cost.total_cost],
            { j \in Accepted : j < k })

CoveredBefore(k) ==
    { get_risk_type(call_recs[rankings[j].recommendation]) : j \in { a \in Accepted : a < k } }

\* the place of recommendation ref in the ranked list
PlaceOf(ref) == CHOOSE k \in DOMAIN rankings : rankings[k].recommendation = ref

\* the strategies of the last analysis whose output holds rec without its
\* first fragment
Producers(rec) ==
    { t \in invoked \ raised :
        /\ rec.reasoning # << >>
        /\ [rec EXCEPT !.reasoning = Tail(@)]
              \in Range(Strategy_analyze_portfolio(t, strategy_configs[t], portfolio,
                                                   call_market_data[1])) }

C2_RankedStable ==
    \A i, j \in DOMAIN rankings :
        i < j =>
            /\ rankings[i].total_score >= rankings[j].total_score
            /\ rankings[i].total_score = rankings[j].total_score
                  => rankings[i].recommendation < rankings[j].recommendation

\* a ranked list that holds a tie and a strict descent
C2_Witness ==
    /\ lastOp = "rank_recommendations"
    /\ \E i, j \in DOMAIN rankings :
          i < j /\ rankings[i].total_score = rankings[j].total_score
    /\ \E i, j \in DOMAIN rankings :
          i < j /\ rankings[i].total_score > rankings[j].total_score

\* C3: when check_breach of the portfolio has no true flag, analyze_portfolio
\* returns the empty list, calls no strategy and leaves every performance
\* counter as it was (and so does the analysis inside
\* get_hedge_recommendations); strategies are called only on a breach.
C3_NoBreachNoStrategy ==
    [][ ( /\ lastOp' \in { "analyze_portfolio", "get_hedge_recommendations" }
          /\ ~AnyBreach(check_breach(thresholds, portfolio)) )
        => ( /\ invoked' = {}
             /\ strategy_performance' = strategy_performance
             /\ lastOp' = "analyze_portfolio" => recommendations' = << >> ) ]_vars

\* analyze_portfolio has returned for a portfolio with positions and no
\* breach, with a strategy enabled
C3_Witness ==
    /\ lastOp = "analyze_portfolio"
    /\ portfolio.positions # << >>
    /\ ~AnyBreach(check_breach(thresholds, portfolio))
    /\ \E t \in Registered : strategy_configs[t].enabled
    /\ recommendations = << >>
    /\ invoked = {}

\* C4: a strategy whose analysis raises inside analyze_portfolio contributes
\* no recommendation and keeps its counters, while every other enabled
\* strategy is still called and all its recommendations are in the result.
C4_FailureIsolated ==
    [][ lastOp' = "analyze_portfolio" =>
          \A t \in raised' :
              /\ strategy_performance'[t] = strategy_performance[t]
              /\ \A i \in DOMAIN recommendations' :
                    ~ContainsTag(recommendations'[i].reasoning, t)
              /\ \A u \in Registered \ {t} :
                    strategy_configs[u].enabled =>
                        /\ u \in invoked'
                        /\ LET out == Strategy_analyze_portfolio(
                                         u, strategy_configs[u], portfolio,
                                         call_market_data'[1])
                           IN  \A k \in DOMAIN out :
                                   TagRecommendation(u, out[k])
                                       \in Range(recommendations') ]_vars

\* a strategy raised and another one's recommendations were returned
C4_Witness ==
    /\ lastOp = "analyze_portfolio"
    /\ raised # {}
    /\ recommendations # << >>
    /\ invoked \ raised # {}

\* C5: get_hedge_recommendations returns a non-empty list for a portfolio with
\* a position: the analysis result when there is one, else exactly one
\* delta-neutral recommendation on the first position's symbol for half that
\* position's size; for a portfolio without positions it returns the empty
\* list.
C5_FallbackRecommendation ==
    lastOp = "get_hedge_recommendations" =>
        LET md == IF call_market_data = << >> THEN SynthesizedMarketData(portfolio)
                  ELSE call_market_data[1]
            analysed == analyze_portfolio(strategy_order, strategy_configs,
                                          strategy_performance, thresholds,
                                          portfolio, md, raised).recs
        IN  IF portfolio.positions = << >> THEN recommendations = << >>
            ELSE /\ recommendations # << >>
                 /\ analysed # << >> => recommendations = analysed
                 /\ analysed = << >> =>
                       /\ Len(recommendations) = 1
                       /\ recommendations[1].symbol = portfolio.positions[1].symbol
                       /\ 2 * recommendations[1].size = portfolio.positions[1].size
                       /\ recommendations[1].strategy = << "DELTA_NEUTRAL" >>
                       /\ extract_strategy_type(recommendations[1].reasoning)
                             = << "delta_neutral" >>

\* the fallback was returned for a short first position
C5_Witness ==
    /\ lastOp = "get_hedge_recommendations"
    /\ portfolio.positions # << >>
    /\ portfolio.positions[1].size < 0
    /\ Len(recommendations) = 1
    /\ recommendations[1].strategy = << "DELTA_NEUTRAL" >>
    /\ 2 * recommendations[1].size = portfolio.positions[1].size

\* C6: a check_breach call changes nothing of the portfolio, its positions or
\* the thresholds, returns a map with exactly the six keys delta, gamma, vega,
\* theta, portfolio_size and position_size, and the map is the one a further
\* call on the same portfolio returns.
C6_CheckBreachPure ==
    [][ lastOp' = "check_breach" =>
          /\ portfolio' = portfolio
          /\ thresholds' = thresholds
          /\ DOMAIN breaches' =
                { "delta", "gamma", "vega", "theta", "portfolio_size", "position_size" }
          /\ breaches' = check_breach(thresholds', portfolio') ]_vars

\* check_breach has run on a portfolio that holds a position without Greeks
\* and breaches a cap
C6_Witness ==
    /\ lastOp = "check_breach"
    /\ \E i \in DOMAIN portfolio.positions : portfolio.positions[i].delta = << >>
    /\ \E k \in DOMAIN breaches : breaches[k]

\* C7: each Greek flag is true iff |sum of the Greek over the positions| is
\* strictly above its cap (a Greek not computed counts 0), portfolio_size iff
\* |total market value| is strictly above max_portfolio_size, position_size
\* iff some position's |market value| is strictly above max_position_size; a
\* value equal to its cap is no breach.
C7_StrictBreach ==
    lastOp = "check_breach" =>
        /\ breaches.delta = (Abs(GreekSum("delta")) > thresholds.max_delta)
        /\ breaches.gamma = (Abs(GreekSum("gamma")) > thresholds.max_gamma)
        /\ breaches.vega = (Abs(GreekSum("vega")) > thresholds.max_vega)
        /\ breaches.theta = (Abs(GreekSum("theta")) > thresholds.max_theta)
        /\ breaches.portfolio_size = (Abs(ValueSum) > thresholds.max_portfolio_size)
        /\ breaches.position_size =
              (\E i \in DOMAIN portfolio.positions :
                  Abs(ValueAt(i)) > thresholds.max_position_size)

\* a position's value equals max_position_size and the delta equals max_delta
\* and the vega equals max_vega to the unit, and none of the three is flagged
C7_Witness ==
    /\ lastOp = "check_breach"
    /\ \E i \in DOMAIN portfolio.positions :
          Abs(ValueAt(i)) = thresholds.max_position_size
    /\ ~breaches.position_size
    /\ Abs(GreekSum("delta")) = thresholds.max_delta
    /\ ~breaches.delta
    /\ Abs(GreekSum("vega")) = thresholds.max_vega
    /\ ~breaches.vega

\* C8: after any add_position, remove_position or in-place update of a size
\* or a current price, total_market_value is the sum of size * current_price
\* over the positions now in the portfolio, plus cash.
C8_TotalMarketValue ==
    total_market_value(portfolio) = ValueSum

\* a position was removed from a portfolio with cash that still holds a
\* position updated in place
C8_Witness ==
    /\ lastOp = "remove_position"
    /\ portfolio.cash # 0
    /\ \E i \in DOMAIN portfolio.positions : portfolio.positions[i] \notin PositionPool

\* C9: select_optimal_hedges accepts the candidate at a place of the ranked
\* list iff its execution cost fits in what the hedges accepted before it
\* left of the budget and (its risk type is covered by none of them or its
\* total score is above 0.8); what it skips counts for nothing; the accepted
\* recommendations come back in ranked order, each at most once.
C9_GreedySelection ==
    lastOp = "select_optimal_hedges" =>
        /\ \A k \in DOMAIN rankings :
              k \in Accepted <=>
                  /\ SpentBefore(k) + rankings[k].cost.total_cost <= EffectiveBudget
                  /\ \/ get_risk_type(call_recs[rankings[k].recommendation])
                           \notin CoveredBefore(k)
                     \/ rankings[k].total_score > 8 * BP
        /\ \A i \in DOMAIN selected :
              \E k \in DOMAIN rankings : rankings[k].recommendation = selected[i]
        /\ \A i, j \in DOMAIN selected :
              i < j => PlaceOf(selected[i]) < PlaceOf(selected[j])

\* a candidate that fitted the budget was skipped for redundancy and a later
\* one was accepted
C9_Witness ==
    /\ lastOp = "select_optimal_hedges"
    /\ \E k, m \in DOMAIN rankings :
          /\ k < m
          /\ k \notin Accepted
          /\ SpentBefore(k) + rankings[k].cost.total_cost <= EffectiveBudget
          /\ m \in Accepted

\* C10: every recommendation analyze_portfolio returns starts its reasoning
\* with the tag of the one strategy that produced it, _extract_strategy_type
\* gives that strategy back, and rank_recommendations files the recommendation
\* under it.
C10_TagRoundTrip ==
    lastOp = "analyze_portfolio" =>
        LET ranked == rank_recommendations(Registered, strategy_configs,
                                           recommendations, portfolio,
                                           call_market_data[1])
        IN  /\ \A i \in DOMAIN recommendations :
                  LET rec == recommendations[i]
                  IN  /\ Cardinality(Producers(rec)) = 1
                      /\ \A t \in Producers(rec) :
                            /\ Head(rec.reasoning) = "[" \o t \o "] "
                            /\ extract_strategy_type(rec.reasoning) = << t >>
            /\ \A k \in DOMAIN ranked :
                  ranked[k].strategy
                      \in Producers(recommendations[ranked[k].recommendation])

\* one analysis returned recommendations of the three strategies and all of
\* them were ranked
C10_Witness ==
    /\ lastOp = "analyze_portfolio"
    /\ \A t \in { "delta_neutral", "protective_put", "collar" } :
          \E i \in DOMAIN recommendations : Producers(recommendations[i]) = { t }
    /\ Len(rank_recommendations(Registered, strategy_configs, recommendations,
                                portfolio, call_market_data[1]))
          = Len(recommendations)

\* C11: rank_recommendations returns one ranking for each recommendation it
\* is given, and a recommendation whose reasoning names no strategy is ranked
\* under delta_neutral with the scores 0.5 / 0.5 / 0.5.
C11_OneRankingPerRecommendation ==
    lastOp = "rank_recommendations" =>
        /\ Len(rankings) = Len(call_recs)
        /\ \A ref \in DOMAIN call_recs :
              extract_strategy_type(call_recs[ref].reasoning) = << >> =>
                  \E k \in DOMAIN rankings :
                      /\ rankings[k].recommendation = ref
                      /\ rankings[k].strategy = "delta_neutral"
                      /\ rankings[k].effectiveness_score = BP \div 2
                      /\ rankings[k].urgency_score = BP \div 2
                      /\ rankings[k].cost_score = BP \div 2

-----------------------------------------------------------------------------
(* The strategies called directly (strategies/hedge_strategies.py)         *)

\* Positions a caller analyses: long, short and empty, spot, perpetual and
\* option, with a delta set, small, or not computed
StrategyPositionPool ==
    { Position("AAPL", "spot", 200 * QTY, 140 * CENTS, 150 * CENTS,
               Some(QTY), Some(0), Some(0), Some(0)),
      Position("AAPL", "spot", 50 * QTY, 150 * CENTS, 150 * CENTS,
               Some(QTY \div 2), Some(0), Some(0), Some(0)),
      Position("AAPL", "spot", 100 * QTY, 150 * CENTS, 150 * CENTS,
               None, None, None, None),
      Position("GOOGL", "spot", -(10 * QTY), 2800 * CENTS, 2800 * CENTS,
               Some(-QTY), Some(0), Some(0), Some(0)),
      Position("ETH-USD", "perpetual", 10 * QTY, 1400 * CENTS, 1500 * CENTS,
               Some(QTY), Some(0), Some(0), Some(0)),
      Position("AAPL_C160", "option_call", 2500 * QTY, 4 * CENTS, 5 * CENTS,
               Some(520), Some(5), Some(-5), Some(10)),
      Position("XYZ", "spot", 250 * QTY, 100 * CENTS, 100 * CENTS,
               Some(250), Some(0), Some(0), Some(0)),
      Position("XYZ", "spot", 0, 100 * CENTS, 100 * CENTS,
               Some(0), Some(0), Some(0), Some(0)) }

\* HedgeConfig values a caller builds: the manager's, the protective-put cap
\* at 5% (as the tests set it), everything disabled, delta thresholds of 1.0
\* and 3.0, a hedge ratio of 0.5, and collars whose put or call is in the money
\* (the put by 5% and by 1% of the price, the call by 5%)
StrategyConfigSet ==
    LET relaxed == [DefaultConfigs EXCEPT !.protective_put.max_hedge_cost = 500]
    IN  { DefaultConfigs,
          relaxed,
          [ t \in DOMAIN DefaultConfigs |-> [DefaultConfigs[t] EXCEPT !.enabled = FALSE] ],
          [relaxed EXCEPT !.delta_neutral.delta_threshold = QTY],
          [relaxed EXCEPT !.delta_neutral.delta_threshold = 3 * QTY],
          [relaxed EXCEPT !.delta_neutral.hedge_ratio = BP \div 2],
          [relaxed EXCEPT !.collar.collar_put_delta = BP \div 2],
          [relaxed EXCEPT !.collar.collar_put_delta = BP \div 10],
          [relaxed EXCEPT !.collar.collar_call_delta = -(BP \div 2)] }

\* market data keyed by the positions' symbols, the same with the underlying
\* of the perpetual added, and for one symbol only
StrategyMarketData ==
    [ sym \in { "AAPL", "GOOGL", "ETH-USD", "AAPL_C160", "XYZ", "ETH" } |->
        CASE sym = "AAPL" -> MarketData("AAPL", 150 * CENTS, None, None)
          [] sym = "GOOGL" -> MarketData("GOOGL", 2800 * CENTS, None, None)
          [] sym = "ETH-USD" -> MarketData("ETH-USD", 1500 * CENTS, None, None)
          [] sym = "AAPL_C160" -> MarketData("AAPL_C160", 5 * CENTS, None, None)
          [] sym = "XYZ" -> MarketData("XYZ", 100 * CENTS, None, None)
          [] sym = "ETH" -> MarketData("ETH", 1500 * CENTS, None, None) ]

\* m restricted to the symbols in S
RestrictTo(m, S) == [ sym \in S |-> m[sym] ]

StrategyMarketDataSet ==
    { RestrictTo(StrategyMarketData, { "AAPL", "GOOGL", "ETH-USD", "AAPL_C160", "XYZ" }),
      StrategyMarketData,
      RestrictTo(StrategyMarketData, { "AAPL" }) }

\* strategy.analyze_position(position, market_data[position.symbol]) on the
\* first position of the portfolio, for the strategy of type t
Strategy_analyze_position(t, cfg, position, market_data) ==
    CASE t = "delta_neutral" -> DeltaNeutral_analyze_position(cfg, position, market_data)
      [] t = "protective_put" -> ProtectivePut_analyze_position(cfg, position, market_data)
      [] t = "collar" -> Collar_analyze_position(cfg, position, market_data)

\* The call strategy.analyze_position(position, market_data): the position is
\* the first of the portfolio, the market data that of its symbol
AnalyzePosition(t) ==
    /\ portfolio.positions # << >>
    /\ portfolio.positions[1].symbol \in DOMAIN call_market_data[1]
    /\ recommendations' =
          Strategy_analyze_position(t, strategy_configs[t], portfolio.positions[1],
                                    call_market_data[1][portfolio.positions[1].symbol])
    /\ lastOp' = t \o ".analyze_position"
    /\ UNCHANGED << calculatorVars, registryVars, limiterVars,
                    portfolio, thresholds, breaches,
                    strategy_order, strategy_configs,
                    strategy_performance, invoked, raised, call_market_data,
                    selectVars >>

\* A mutation of the call strategy.analyze_portfolio: the aggregate the
\* strategy works on is written over the first position of the portfolio.
StrategyAnalyzePortfolio_inplace(t) ==
    /\ recommendations' =
          Strategy_analyze_portfolio(t, strategy_configs[t], portfolio,
                                     call_market_data[1])
    /\ portfolio' = IF portfolio.positions = << >> THEN portfolio
                    ELSE [portfolio EXCEPT !.positions[1].size = total_delta(portfolio),
                                           !.positions[1].delta = Some(total_delta(portfolio))]
    /\ lastOp' = t \o ".analyze_portfolio"
    /\ UNCHANGED << calculatorVars, registryVars, limiterVars,
                    thresholds, breaches,
                    strategy_order, strategy_configs,
                    strategy_performance, invoked, raised, call_market_data,
                    selectVars >>

\* The call strategy.analyze_portfolio(portfolio, market_data)
StrategyAnalyzePortfolio(t) ==
    /\ recommendations' =
          Strategy_analyze_portfolio(t, strategy_configs[t], portfolio,
                                     call_market_data[1])
    /\ lastOp' = t \o ".analyze_portfolio"
    /\ UNCHANGED << calculatorVars, registryVars, limiterVars,
                    portfolio, thresholds, breaches,
                    strategy_order, strategy_configs,
                    strategy_performance, invoked, raised, call_market_data,
                    selectVars >>

\* A strategy object of each type, a portfolio and market data a caller holds
InitStrategy ==
    /\ portfolio \in { [ positions |-> ps, cash |-> 0 ] :
                          ps \in SeqsUpTo(StrategyPositionPool, MaxPositions) }
    /\ thresholds = DefaultThresholds
    /\ breaches = NoBreaches
    /\ lastOp = "init"
    /\ strategy_configs \in StrategyConfigSet
    /\ strategy_order = DefaultOrder
    /\ strategy_performance = [ t \in Range(DefaultOrder) |-> StrategyPerformance ]
    /\ recommendations = << >>
    /\ invoked = {}
    /\ raised = {}
    /\ call_market_data \in { Some(m) : m \in StrategyMarketDataSet }
    /\ SelectInit
    /\ CalculatorInit
    /\ RegistryInit
    /\ LimiterInit

NextStrategy ==
    \/ \E t \in Range(DefaultOrder) : AnalyzePosition(t)
    \/ \E t \in Range(DefaultOrder) : StrategyAnalyzePortfolio(t)

SpecStrategy == InitStrategy /\ [][NextStrategy]_vars

\* the position a strategy was asked about, and its delta (0 when not computed)
AnalysedPosition == portfolio.positions[1]

AnalysedDelta ==
    IF AnalysedPosition.delta = << >> THEN 0 ELSE AnalysedPosition.delta[1]

\* C13: DeltaNeutralStrategy.analyze_position returns a recommendation iff
\* the strategy is enabled, |delta| >= delta_threshold (a delta not computed
\* counting 0) and |hedge size| >= 1 with hedge size = -delta * hedge_ratio;
\* the recommendation has size |hedge size|, action BUY or SELL, and the
\* instrument mapped from the position's symbol, "<symbol>-PERP" without a
\* mapping; otherwise it returns none.
C13_DeltaNeutralPosition ==
    lastOp = "delta_neutral.analyze_position" =>
        LET cfg == strategy_configs.delta_neutral
            scaled == AnalysedDelta * cfg.hedge_ratio
            magnitude == IF scaled < 0 THEN -scaled ELSE scaled
            sym == AnalysedPosition.symbol
        IN  /\ Len(recommendations) <= 1
            /\ recommendations # << >> <=>
                  /\ cfg.enabled
                  /\ (IF AnalysedDelta < 0 THEN -AnalysedDelta ELSE AnalysedDelta)
                        >= cfg.delta_threshold
                  /\ magnitude >= QTY * BP
            /\ recommendations # << >> =>
                  /\ recommendations[1].size * BP = magnitude
                  /\ recommendations[1].action \in { "BUY", "SELL" }
                  /\ sym \in { "AAPL", "GOOGL" } => recommendations[1].symbol = "QQQ"
                  /\ sym = "ETH-USD" => recommendations[1].symbol = "ETH/USDT"
                  /\ sym = "XYZ" => recommendations[1].symbol = "XYZ-PERP"
                  /\ sym = "AAPL_C160" => recommendations[1].symbol = "AAPL_C160-PERP"

\* a hedge of size exactly 1 was recommended for a delta equal to the
\* threshold
C13_Witness ==
    /\ lastOp = "delta_neutral.analyze_position"
    /\ recommendations # << >>
    /\ AnalysedDelta = strategy_configs.delta_neutral.delta_threshold
    /\ recommendations[1].size = QTY
    /\ recommendations[1].symbol = "QQQ"

\* the base underlyings of the portfolio's positions
PortfolioBases ==
    { BaseSymbol(portfolio.positions[i].symbol) : i \in DOMAIN portfolio.positions }

\* the base underlyings whose net delta reaches the threshold with a hedge of
\* at least the minimum size
BasesToHedge ==
    LET cfg == strategy_configs.delta_neutral
    IN  { b \in PortfolioBases :
            /\ Abs(NetDelta(portfolio, b)) >= cfg.delta_threshold
            /\ Abs(NetDelta(portfolio, b) * cfg.hedge_ratio) >= QTY * BP }

\* C14: DeltaNeutralStrategy.analyze_portfolio, given market data for the
\* symbol of every position, returns exactly one recommendation, sized from
\* the net delta, for each base underlying whose |net delta| reaches
\* delta_threshold, and none for the other underlyings.
C14_NetDeltaPerBase ==
    (/\ lastOp = "delta_neutral.analyze_portfolio"
     /\ strategy_configs.delta_neutral.enabled
     /\ \A i \in DOMAIN portfolio.positions :
            portfolio.positions[i].symbol \in DOMAIN call_market_data[1])
    => /\ Len(recommendations) = Cardinality(BasesToHedge)
       /\ \A b \in BasesToHedge :
            \E k \in DOMAIN recommendations :
                /\ recommendations[k].symbol = select_hedge_instrument(b)
                /\ recommendations[k].size * BP
                      = Abs(NetDelta(portfolio, b)
                              * strategy_configs.delta_neutral.hedge_ratio)

\* the premium and the cost cap ProtectivePutStrategy computes for a position
\* of the given size and value at the quoted price
PutCost(size, price) ==
    LET strike == ((price \div CENTS)
                      * (BP + strategy_configs.protective_put.protective_put_delta))
                    \div (BP \div CENTS)
    IN  (estimate_put_premium(price, strike, 30) * size) \div QTY

PutCostCap(value) ==
    FractionOf(value, strategy_configs.protective_put.max_hedge_cost)

\* total size of the long positions of a symbol
LongSize(sym) ==
    SumSeq([i \in DOMAIN portfolio.positions |->
              IF portfolio.positions[i].symbol = sym /\ portfolio.positions[i].size > 0
              THEN portfolio.positions[i].size ELSE 0])

\* C15: ProtectivePutStrategy yields a recommendation only for a long,
\* non-option position with market value >= 10,000 whose premium * size is
\* at most value * max_hedge_cost, through analyze_position as well as
\* through analyze_portfolio; the recommendation has action BUY, a put as
\* instrument and the position's size.
C15_ProtectivePutOnlyLongSpot ==
    /\ (lastOp = "protective_put.analyze_position" /\ recommendations # << >>)
       => /\ AnalysedPosition.size > 0
          /\ ~is_option(AnalysedPosition)
          /\ market_value(AnalysedPosition) >= 10000 * CENTS
          /\ PutCost(AnalysedPosition.size,
                     call_market_data[1][AnalysedPosition.symbol].price)
                <= PutCostCap(market_value(AnalysedPosition))
          /\ recommendations[1].action = "BUY"
          /\ recommendations[1].instrument_type = "option_put"
          /\ recommendations[1].size = AnalysedPosition.size
    /\ lastOp = "protective_put.analyze_portfolio"
       => \A k \in DOMAIN recommendations :
            \E i \in DOMAIN portfolio.positions :
                LET pos == portfolio.positions[i]
                IN  /\ pos.size > 0
                    /\ ~is_option(pos)
                    /\ recommendations[k].size = LongSize(pos.symbol)
                    /\ recommendations[k].action = "BUY"
                    /\ recommendations[k].instrument_type = "option_put"

\* the net cost CollarStrategy computes for the analysed position: the put's
\* premium less the call's, times the size
CollarNetCost ==
    LET cfg == strategy_configs.collar
        price == call_market_data[1][AnalysedPosition.symbol].price
        put_strike == ((price \div CENTS) * (10 * BP + cfg.collar_put_delta))
                        \div ((10 * BP) \div CENTS)
        call_strike == ((price \div CENTS) * (10 * BP + cfg.collar_call_delta))
                        \div ((10 * BP) \div CENTS)
    IN  ((estimate_put_premium(price, put_strike, 30)
            - estimate_call_premium(price, call_strike, 30))
         * AnalysedPosition.size) \div QTY

\* C16: CollarStrategy.analyze_position returns at most one recommendation,
\* with action COLLAR, the position's size and a risk_reduction holding
\* downside_protection and upside_cap; it returns none when the position is
\* not long, when its market value is below 25,000 or when the net cost
\* exceeds value * max_hedge_cost; the estimated cost is never negative.
C16_CollarPosition ==
    lastOp = "collar.analyze_position" =>
        LET value == market_value(AnalysedPosition)
        IN  /\ Len(recommendations) <= 1
            /\ recommendations # << >> <=>
                  /\ strategy_configs.collar.enabled
                  /\ AnalysedPosition.size > 0
                  /\ value >= 25000 * CENTS
                  /\ CollarNetCost
                        <= FractionOf(value, strategy_configs.collar.max_hedge_cost)
            /\ recommendations # << >> =>
                  /\ recommendations[1].action = "COLLAR"
                  /\ recommendations[1].size = AnalysedPosition.size
                  /\ recommendations[1].risk_reduction # << >>
                  /\ { "downside_protection", "upside_cap" }
                        \subseteq DOMAIN recommendations[1].risk_reduction[1]
                  /\ recommendations[1].estimated_cost # << >>
                  /\ recommendations[1].estimated_cost[1] >= 0

\* a collar that pays the holder (the call is in the money) was recommended
\* for a position worth exactly 25,000
C16_Witness ==
    /\ lastOp = "collar.analyze_position"
    /\ recommendations # << >>
    /\ market_value(AnalysedPosition) = 25000 * CENTS
    /\ recommendations[1].risk_reduction[1].net_cost < 0
    /\ recommendations[1].estimated_cost[1] > 0

-----------------------------------------------------------------------------
(* RiskCalculator (risk/calculator.py)                                     *)

\* A Position with its option terms and rho: strike_price in cents,
\* expiry_date as whole days from the evaluation time, implied_volatility
\* in BP; each of them and each Greek None until set.
PositionWithTerms(sym, typ, size, entry, cur, strike, expiry, iv, greeks) ==
    [ symbol |-> sym, position_type |-> typ, size |-> size,
      entry_price |-> entry, current_price |-> cur,
      strike_price |-> strike, expiry_date |-> expiry, implied_volatility |-> iv,
      delta |-> greeks, gamma |-> greeks, theta |-> greeks, vega |-> greeks,
      rho |-> greeks ]

\* the fields of a position other than its five Greeks
TermsOf(pos) ==
    [ f \in DOMAIN pos \ { "delta", "gamma", "theta", "vega", "rho" } |-> pos[f] ]

\* the five Greek fields of a position
GreeksOf(pos) == [ f \in { "delta", "gamma", "theta", "vega", "rho" } |-> pos[f] ]

\* an exception of the named class left the call
RaisedError(kind) == [ ok |-> FALSE, val |-> kind ]

\* BlackScholesCalculator.time_to_expiry, in days: max(expiry - now, 0)
time_to_expiry(expiry_date) == Max(expiry_date, 0)

\* BlackScholesCalculator.delta, gamma, theta, vega and rho per unit, in
\* 1/100, at r = 0.05: the closed forms at expiry, and the values of the
\* formulas (rounded to 1/100) for the terms the positions below have
BlackScholesGreeks(S, K, T, sigma, option_type) ==
    IF T <= 0
    THEN [ delta |-> IF option_type = "call"
                     THEN (IF S > K THEN QTY ELSE 0)
                     ELSE (IF S < K THEN -QTY ELSE 0),
           gamma |-> 0, theta |-> 0, vega |-> 0, rho |-> 0 ]
    ELSE CASE option_type = "call" /\ S = 150 * CENTS /\ K = 150 * CENTS
                /\ T = 30 /\ sigma = BP \div 4 ->
                [ delta |-> 54, gamma |-> 4, theta |-> -8, vega |-> 17, rho |-> 6 ]
           [] option_type = "call" /\ S = 160 * CENTS /\ K = 150 * CENTS
                /\ T = 30 /\ sigma = BP \div 4 ->
                [ delta |-> 84, gamma |-> 2, theta |-> -6, vega |-> 11, rho |-> 10 ]
           [] option_type = "put" /\ S = 150 * CENTS /\ K = 150 * CENTS
                /\ T = 30 /\ sigma = BP \div 5 ->
                [ delta |-> -46, gamma |-> 5, theta |-> -5, vega |-> 17, rho |-> -6 ]
           [] option_type = "put" /\ S = 160 * CENTS /\ K = 150 * CENTS
                /\ T = 30 /\ sigma = BP \div 5 ->
                [ delta |-> -11, gamma |-> 2, theta |-> -3, vega |-> 9, rho |-> -1 ]

\* A mutation of calculate_position_greeks: an option's Greeks are added to
\* the values the position already holds.
calculate_position_greeks_accumulating(position) ==
    IF ~is_option(position)
    THEN Returned([position EXCEPT
            !.delta = Some(IF position.size > 0 THEN QTY ELSE -QTY),
            !.gamma = Some(0), !.theta = Some(0), !.vega = Some(0), !.rho = Some(0)])
    ELSE IF position.strike_price = None \/ position.expiry_date = None
    THEN RaisedError("ValueError")
    ELSE LET sigma == IF OrZero(position.implied_volatility) = 0
                      THEN BP \div 5 ELSE position.implied_volatility[1]
             per_unit == BlackScholesGreeks(
                            position.current_price, position.strike_price[1],
                            time_to_expiry(position.expiry_date[1]), sigma,
                            IF position.position_type = "option_call"
                            THEN "call" ELSE "put")
             Scaled(g) == OrZero(position[g]) + (per_unit[g] * position.size) \div QTY
         IN  Returned([position EXCEPT
                !.delta = Some(Scaled("delta")), !.gamma = Some(Scaled("gamma")),
                !.theta = Some(Scaled("theta")), !.vega = Some(Scaled("vega")),
                !.rho = Some(Scaled("rho"))])

\* RiskCalculator.calculate_position_greeks: the position with its Greeks
\* set, or the exception that left the call
calculate_position_greeks(position) ==
    IF ~is_option(position)
    THEN Returned([position EXCEPT
            !.delta = Some(IF position.size > 0 THEN QTY ELSE -QTY),
            !.gamma = Some(0), !.theta = Some(0), !.vega = Some(0), !.rho = Some(0)])
    ELSE IF position.strike_price = None \/ position.expiry_date = None
    THEN RaisedError("ValueError")
    ELSE LET sigma == IF OrZero(position.implied_volatility) = 0
                      THEN BP \div 5 ELSE position.implied_volatility[1]
             per_unit == BlackScholesGreeks(
                            position.current_price, position.strike_price[1],
                            time_to_expiry(position.expiry_date[1]), sigma,
                            IF position.position_type = "option_call"
                            THEN "call" ELSE "put")
             Scaled(g) == (per_unit[g] * position.size) \div QTY
         IN  Returned([position EXCEPT
                !.delta = Some(Scaled("delta")), !.gamma = Some(Scaled("gamma")),
                !.theta = Some(Scaled("theta")), !.vega = Some(Scaled("vega")),
                !.rho = Some(Scaled("rho"))])

\* a float quotient n / d, kept exact
Quotient(n, d) == [ num |-> n, den |-> d ]

PortfolioRiskMetrics(total_value, d, g, t, v, pnl) ==
    [ total_value |-> total_value, delta |-> d, gamma |-> g, theta |-> t,
      vega |-> v, unrealized_pnl |-> pnl, var |-> 0 ]

\* the loop of calculate_portfolio_risk from position k on; acc holds the
\* positions as updated so far and the running totals
RECURSIVE RiskLoop(_, _, _)
RiskLoop(market_data, k, acc) ==
    IF k > Len(acc.positions) THEN acc
    ELSE LET position == acc.positions[k]
             priced == IF position.symbol = market_data.symbol
                       THEN [position EXCEPT !.current_price = market_data.price]
                       ELSE position
             result == calculate_position_greeks(priced)
             Weighted(g) == (OrZero(result.val[g]) * priced.size) \div QTY
         IN  IF ~result.ok
             THEN [acc EXCEPT !.positions[k] = priced, !.failed = TRUE]
             ELSE RiskLoop(market_data, k + 1,
                    [ positions |-> [acc.positions EXCEPT ![k] = result.val],
                      failed |-> FALSE,
                      total_value |-> acc.total_value + market_value(priced),
                      unrealized_pnl |-> acc.unrealized_pnl
                          + (priced.size * (priced.current_price - priced.entry_price))
                                \div QTY,
                      total_delta |-> acc.total_delta + Weighted("delta"),
                      total_gamma |-> acc.total_gamma + Weighted("gamma"),
                      total_theta |-> acc.total_theta + Weighted("theta"),
                      total_vega |-> acc.total_vega + Weighted("vega") ])

\* RiskCalculator.calculate_portfolio_risk: the positions as the call leaves
\* them and the metrics it returns (all zero when a position made it fail)
calculate_portfolio_risk(pf, market_data) ==
    LET done == RiskLoop(market_data, 1,
                    [ positions |-> pf.positions, failed |-> FALSE,
                      total_value |-> 0, unrealized_pnl |-> 0, total_delta |-> 0,
                      total_gamma |-> 0, total_theta |-> 0, total_vega |-> 0 ])
        zero == Quotient(0, 1)
    IN  [ positions |-> done.positions,
          metrics |->
            IF done.failed
            THEN PortfolioRiskMetrics(0, zero, zero, zero, zero, 0)
            ELSE IF done.total_value > 0
            THEN PortfolioRiskMetrics(
                    done.total_value,
                    Quotient(done.total_delta, done.total_value),
                    Quotient(done.total_gamma, done.total_value),
                    Quotient(done.total_theta, done.total_value),
                    Quotient(done.total_vega, done.total_value),
                    done.unrealized_pnl)
            ELSE PortfolioRiskMetrics(done.total_value, zero, zero, zero, zero,
                                      done.unrealized_pnl) ]

\* Positions a caller creates: the spot position of the tests, a short
\* future with Greeks left from an earlier computation, an empty perpetual,
\* a long call and a short put 30 days from expiry (the put without an
\* implied volatility), a call past its expiry, and options built without
\* a strike or without an expiry date
GreekPositionPool ==
    { PositionWithTerms("AAPL", "spot", 100 * QTY, 150 * CENTS, 155 * CENTS,
                        None, None, None, None),
      PositionWithTerms("ES=F", "futures", -(50 * QTY), 150 * CENTS, 150 * CENTS,
                        None, None, None, Some(7 * QTY)),
      PositionWithTerms("ETH-USD", "perpetual", 0, 1500 * CENTS, 1500 * CENTS,
                        None, None, None, None),
      PositionWithTerms("AAPL", "option_call", 10 * QTY, 5 * CENTS, 150 * CENTS,
                        Some(150 * CENTS), Some(30), Some(BP \div 4), None),
      PositionWithTerms("AAPL", "option_put", -(5 * QTY), 5 * CENTS, 150 * CENTS,
                        Some(150 * CENTS), Some(30), None, None),
      PositionWithTerms("MSFT", "option_call", 10 * QTY, 5 * CENTS, 150 * CENTS,
                        Some(140 * CENTS), Some(-1), Some(BP \div 4), None),
      PositionWithTerms("MSFT", "option_call", 10 * QTY, 5 * CENTS, 150 * CENTS,
                        None, Some(30), Some(BP \div 4), Some(7 * QTY)),
      PositionWithTerms("MSFT", "option_put", 10 * QTY, 5 * CENTS, 150 * CENTS,
                        Some(150 * CENTS), None, None, None) }

\* the market data calculate_portfolio_risk is called with
RiskMarketDataSet ==
    { MarketData("AAPL", 160 * CENTS, None, None),
      MarketData("ETH-USD", 1500 * CENTS, None, None) }

\* The call risk_calc.calculate_position_greeks(portfolio.positions[i]): the
\* position is updated in place, or left as it was when the call raises
CalculatePositionGreeks(i) ==
    /\ i \in DOMAIN portfolio.positions
    /\ LET result == calculate_position_greeks(portfolio.positions[i])
       IN  /\ call_position' = Some(portfolio.positions[i])
           /\ calc_result' = result
           /\ portfolio' = IF result.ok
                           THEN [portfolio EXCEPT !.positions[i] = result.val]
                           ELSE portfolio
    /\ lastOp' = "calculate_position_greeks"
    /\ UNCHANGED << call_args, registryVars, limiterVars, thresholds, breaches,
                    managerVars, selectVars >>

\* The call risk_calc.calculate_portfolio_risk(portfolio, market_data)
CalculatePortfolioRisk(market_data) ==
    /\ LET result == calculate_portfolio_risk(portfolio, market_data)
       IN  /\ portfolio' = [portfolio EXCEPT !.positions = result.positions]
           /\ calc_result' = Returned(result.metrics)
    /\ call_position' = None
    /\ lastOp' = "calculate_portfolio_risk"
    /\ UNCHANGED << call_args, registryVars, limiterVars, thresholds, breaches,
                    managerVars, selectVars >>

\* The calculator over portfolios a caller built
InitGreeks ==
    /\ portfolio \in { [ positions |-> q, cash |-> 0 ] :
                          q \in SeqsUpTo(GreekPositionPool, MaxPositions) }
    /\ thresholds = DefaultThresholds
    /\ breaches = NoBreaches
    /\ lastOp = "init"
    /\ strategy_configs = DefaultConfigs
    /\ ManagerInit
    /\ SelectInit
    /\ CalculatorInit
    /\ RegistryInit
    /\ LimiterInit

NextGreeks ==
    \/ \E i \in 1..MaxPositions : CalculatePositionGreeks(i)
    \/ \E market_data \in RiskMarketDataSet : CalculatePortfolioRisk(market_data)

SpecGreeks == InitGreeks /\ [][NextGreeks]_vars

\* -1, 0 or +1 with the sign of x
SignOf(x) == IF x > 0 THEN 1 ELSE IF x < 0 THEN -1 ELSE 0

\* C17: for every non-option position calculate_position_greeks sets delta
\* to +1 when the position is long and to -1 when it is short, and gamma,
\* theta, vega and rho to 0, whatever the size's magnitude and the Greeks
\* the position held before; the sign of delta matches the sign of size.
C17_NonOptionGreeks ==
    (/\ lastOp = "calculate_position_greeks"
     /\ ~is_option(call_position[1]))
    => /\ calc_result.ok
       /\ calc_result.val.size > 0 => calc_result.val.delta = Some(QTY)
       /\ calc_result.val.size < 0 => calc_result.val.delta = Some(-QTY)
       /\ SignOf(calc_result.val.delta[1]) = SignOf(calc_result.val.size)
       /\ \A g \in { "gamma", "theta", "vega", "rho" } : calc_result.val[g] = Some(0)

\* C18: calculate_position_greeks is idempotent: applied again to the
\* position it returned (terms and evaluation time unchanged) it leaves the
\* five Greeks as the first application set them; and it changes no field
\* of the position other than the five Greeks.
C18_GreeksIdempotent ==
    lastOp = "calculate_position_greeks" =>
        IF calc_result.ok
        THEN /\ TermsOf(calc_result.val) = TermsOf(call_position[1])
             /\ calc_result.val \in Range(portfolio.positions)
             /\ calculate_position_greeks(calc_result.val) = Returned(calc_result.val)
        ELSE call_position[1] \in Range(portfolio.positions)

\* the Greeks of the long call were computed a second time: the position
\* passed already held the Greeks the call returned
C18_Witness ==
    /\ lastOp = "calculate_position_greeks"
    /\ calc_result.ok
    /\ call_position = Some(calc_result.val)
    /\ calc_result.val.position_type = "option_call"
    /\ calc_result.val.delta = Some(540)
    /\ calc_result.val.theta = Some(-80)

\* the position passed is an option built without a strike or without an
\* expiry date
LacksTerms(pos) ==
    is_option(pos) /\ (pos.strike_price = None \/ pos.expiry_date = None)

\* C19: calculate_position_greeks applied to an option position that lacks
\* a strike price or an expiry date fails with an InvalidPositionError and
\* leaves the five Greeks of the position as they were before the call.
C19_MissingTermsFail ==
    (lastOp = "calculate_position_greeks" /\ LacksTerms(call_position[1]))
    => /\ calc_result = RaisedError("InvalidPositionError")
       /\ \E i \in DOMAIN portfolio.positions :
            /\ TermsOf(portfolio.positions[i]) = TermsOf(call_position[1])
            /\ GreeksOf(portfolio.positions[i]) = GreeksOf(call_position[1])

\* the per-unit Greeks of an option position with all its terms
PerUnitGreeks(pos) ==
    BlackScholesGreeks(
        pos.current_price, pos.strike_price[1], time_to_expiry(pos.expiry_date[1]),
        IF OrZero(pos.implied_volatility) = 0 THEN BP \div 5
        ELSE pos.implied_volatility[1],
        IF pos.position_type = "option_call" THEN "call" ELSE "put")

\* C20: the Greek fields hold size-scaled exposure end to end: after
\* calculate_position_greeks each of an option's five Greeks is the per-unit
\* Greek times the position's size, and calculate_portfolio_risk, like the
\* Portfolio totals, sums the fields as they are (before it divides by the
\* total value), never multiplying a field by the size again.
C20_GreeksSizeScaledOnce ==
    /\ (lastOp = "calculate_position_greeks" /\ calc_result.ok
            /\ is_option(calc_result.val))
       => \A g \in { "delta", "gamma", "theta", "vega", "rho" } :
            calc_result.val[g]
                = Some((PerUnitGreeks(calc_result.val)[g] * calc_result.val.size)
                          \div QTY)
    /\ (lastOp = "calculate_portfolio_risk" /\ calc_result.val.total_value > 0)
       => /\ calc_result.val.delta.num = total_delta(portfolio)
          /\ calc_result.val.gamma.num = total_gamma(portfolio)
          /\ calc_result.val.theta.num = total_theta(portfolio)
          /\ calc_result.val.vega.num = total_vega(portfolio)

-----------------------------------------------------------------------------
(* BlackScholesCalculator (risk/calculator.py)                             *)

\* x / 100 rounded to the nearest whole number, for x >= 0
Hundredth(x) == (x + 50) \div 100

\* np.sqrt(T) for T years given in days, in BP: defined for the expiries used
SqrtYears(T) == CASE T = 30 -> 2866

\* BlackScholesCalculator.d1, in BP: 0 when T <= 0 or sigma <= 0, else
\* (ln(S/K) + (r + sigma^2/2) T) / (sigma sqrt(T)) at r = 0.05, for the
\* arguments used
BlackScholes_d1(S, K, T, sigma) ==
    IF T <= 0 \/ sigma <= 0 THEN 0
    ELSE CASE S = 150 * CENTS /\ K = 140 * CENTS /\ sigma = BP \div 5 -> 13040
           [] S = 150 * CENTS /\ K = 140 * CENTS /\ sigma = BP \div 4 -> 10561
           [] S = 150 * CENTS /\ K = 150 * CENTS /\ sigma = BP \div 5 -> 1003
           [] S = 150 * CENTS /\ K = 150 * CENTS /\ sigma = BP \div 4 -> 931
           [] S = 160 * CENTS /\ K = 140 * CENTS /\ sigma = BP \div 5 -> 24299
           [] S = 160 * CENTS /\ K = 140 * CENTS /\ sigma = BP \div 4 -> 19569
           [] S = 160 * CENTS /\ K = 150 * CENTS /\ sigma = BP \div 5 -> 12263
           [] S = 160 * CENTS /\ K = 150 * CENTS /\ sigma = BP \div 4 -> 9939

\* scipy.stats.norm.pdf, argument and value in BP, for the values d1 takes
norm_pdf(x) ==
    CASE x = 0 -> 3989
      [] x = 931 -> 3972
      [] x = 1003 -> 3969
      [] x = 9939 -> 2434
      [] x = 10561 -> 2284
      [] x = 12263 -> 1881
      [] x = 13040 -> 1705
      [] x = 19569 -> 588
      [] x = 24299 -> 208

\* BlackScholesCalculator.gamma, in 1/100:
\* norm.pdf(d1) / (S * sigma * sqrt(T)), rounded to the nearest 1/100
BlackScholes_gamma(S, K, T, sigma) ==
    IF T <= 0 \/ sigma <= 0 THEN 0
    ELSE LET denominator == (((S * sigma) \div BP) * SqrtYears(T)) \div BP
         IN  (2 * norm_pdf(BlackScholes_d1(S, K, T, sigma)) + denominator)
                \div (2 * denominator)

\* BlackScholesCalculator.vega, in 1/100: S * norm.pdf(d1) * sqrt(T) / 100;
\* only T <= 0 is guarded
BlackScholes_vega(S, K, T, sigma) ==
    IF T <= 0 THEN 0
    ELSE Hundredth(
            (((S * norm_pdf(BlackScholes_d1(S, K, T, sigma))) \div BP)
                * SqrtYears(T)) \div BP)

\* the arguments the pricing functions are called with: spot and strike in
\* cents, T in days (one past expiry, one at expiry), volatilities below,
\* at and above zero
BlackScholesArgs ==
    [ S : { 150 * CENTS, 160 * CENTS },
      K : { 140 * CENTS, 150 * CENTS },
      T : { -1, 0, 30 },
      sigma : { -(BP \div 4), 0, BP \div 5, BP \div 4 } ]

\* The call bs.gamma(S, K, T, r, sigma)
CallGamma ==
    /\ calc_result' = Returned(BlackScholes_gamma(
                          call_args[1].S, call_args[1].K, call_args[1].T,
                          call_args[1].sigma))
    /\ lastOp' = "gamma"
    /\ UNCHANGED << call_position, call_args, registryVars, limiterVars, portfolio,
                    thresholds, breaches, managerVars, selectVars >>

\* The call bs.vega(S, K, T, r, sigma)
CallVega ==
    /\ calc_result' = Returned(BlackScholes_vega(
                          call_args[1].S, call_args[1].K, call_args[1].T,
                          call_args[1].sigma))
    /\ lastOp' = "vega"
    /\ UNCHANGED << call_position, call_args, registryVars, limiterVars, portfolio,
                    thresholds, breaches, managerVars, selectVars >>

\* The pricing functions on the arguments a caller passes
InitBlackScholes ==
    /\ portfolio = [ positions |-> << >>, cash |-> 0 ]
    /\ thresholds = DefaultThresholds
    /\ breaches = NoBreaches
    /\ lastOp = "init"
    /\ strategy_configs = DefaultConfigs
    /\ ManagerInit
    /\ SelectInit
    /\ call_position = None
    /\ calc_result = Returned(None)
    /\ call_args \in { Some(a) : a \in BlackScholesArgs }
    /\ RegistryInit
    /\ LimiterInit

NextBlackScholes ==
    \/ CallGamma
    \/ CallVega

SpecBlackScholes == InitBlackScholes /\ [][NextBlackScholes]_vars

\* C21: for every S, K and T (T > 0 included), a volatility sigma <= 0
\* makes BlackScholesCalculator.gamma and BlackScholesCalculator.vega both
\* return exactly 0.
C21_ZeroVolatilityGreeks ==
    (lastOp \in { "gamma", "vega" } /\ call_args[1].sigma <= 0)
    => calc_result = Returned(0)

-----------------------------------------------------------------------------
(* RiskCalculator.calculate_var (risk/calculator.py)                       *)

\* A mutation of calculate_var: the index is taken from the confidence
\* level itself, int(confidence_level * n).
calculate_var_upper_tail(returns, confidence_level) ==
    LET sorted_returns == SortSeq(returns, LAMBDA a, b : a < b)
        index == (confidence_level * Len(sorted_returns)) \div BP
    IN  IF Len(returns) = 0 THEN 0
        ELSE IF index < Len(sorted_returns) THEN -sorted_returns[index + 1]
        ELSE 0

\* RiskCalculator.calculate_var; returns and the result in BP, the
\* confidence level in BP, index counted from 0 as in the source
calculate_var(returns, confidence_level) ==
    LET sorted_returns == SortSeq(returns, LAMBDA a, b : a < b)
        index == ((BP - confidence_level) * Len(sorted_returns)) \div BP
    IN  IF Len(returns) = 0 THEN 0
        ELSE IF index < Len(sorted_returns) THEN -sorted_returns[index + 1]
        ELSE 0

\* the longest return series passed
MaxReturns == 3

\* returns of -3%, -1%, 0 and +2%
ReturnSet == { -300, -100, 0, 200 }

\* confidence levels of 0, 50%, 95%, 99% and 1
ConfidenceSet == { 0, BP \div 2, 9500, 9900, BP }

\* The call risk_calc.calculate_var(returns, confidence_level)
CalculateVar ==
    /\ calc_result' = Returned(calculate_var(call_args[1].returns,
                                             call_args[1].confidence_level))
    /\ lastOp' = "calculate_var"
    /\ UNCHANGED << call_position, call_args, registryVars, limiterVars, portfolio,
                    thresholds, breaches, managerVars, selectVars >>

\* The caller passes the same series again with another confidence level
ChangeConfidence(c) ==
    /\ call_args' = Some([call_args[1] EXCEPT !.confidence_level = c])
    /\ calc_result' = Returned(None)
    /\ lastOp' = "set_confidence_level"
    /\ UNCHANGED << call_position, registryVars, limiterVars, portfolio,
                    thresholds, breaches, managerVars, selectVars >>

InitVar ==
    /\ portfolio = [ positions |-> << >>, cash |-> 0 ]
    /\ thresholds = DefaultThresholds
    /\ breaches = NoBreaches
    /\ lastOp = "init"
    /\ strategy_configs = DefaultConfigs
    /\ ManagerInit
    /\ SelectInit
    /\ call_position = None
    /\ calc_result = Returned(None)
    /\ call_args \in { Some([ returns |-> q, confidence_level |-> BP ]) :
                          q \in SeqsUpTo(ReturnSet, MaxReturns) }
    /\ RegistryInit
    /\ LimiterInit

NextVar ==
    \/ CalculateVar
    \/ \E c \in ConfidenceSet : ChangeConfidence(c)

SpecVar == InitVar /\ [][NextVar]_vars

\* how many elements of s satisfy Test
CountWhere(s, Test(_)) == Cardinality({ i \in DOMAIN s : Test(s[i]) })

\* C22: calculate_var returns 0 for an empty series and otherwise the
\* negation of the element at index floor((1 - confidence) * n) of the
\* returns in ascending order, 0 when that index is out of range; so for one
\* series and confidence levels c1 >= c2 in (0, 1] the value at c1 is at
\* least the value at c2.
C22_VarOrderStatistic ==
    lastOp = "calculate_var" =>
        LET returns == call_args[1].returns
            c1 == call_args[1].confidence_level
            n == Len(returns)
            index == ((BP - c1) * n) \div BP
            value == calc_result.val
        IN  /\ n = 0 => value = 0
            /\ (n > 0 /\ index >= n) => value = 0
            /\ (n > 0 /\ index < n) =>
                  /\ -value \in Range(returns)
                  /\ CountWhere(returns, LAMBDA x : x < -value) <= index
                  /\ index < CountWhere(returns, LAMBDA x : x <= -value)
            /\ \A c2 \in ConfidenceSet :
                  (c1 > 0 /\ c2 > 0 /\ c1 >= c2) =>
                      value >= calculate_var(returns, c2)

\* the 95% value of a three-element series is a loss, larger than its 50%
\* value
C22_Witness ==
    /\ lastOp = "calculate_var"
    /\ Len(call_args[1].returns) = MaxReturns
    /\ call_args[1].confidence_level = 9500
    /\ calc_result.val > 0
    /\ calc_result.val > calculate_var(call_args[1].returns, BP \div 2)

\* the enabled flags of the registered strategies
EnabledFlags == [ t \in DOMAIN strategy_configs |-> strategy_configs[t].enabled ]

\* C23: while strategy t is disabled (from enable_strategy(t, False) until
\* enable_strategy(t, True)), analyze_portfolio does not invoke t, returns no
\* recommendation tagged with t and leaves t's counters; an enabled strategy
\* is consulted again; only enable_strategy changes a flag, it changes the
\* flag of the strategy named and of no other, and naming a strategy that
\* is not registered changes nothing.
C23_DisabledNotConsulted ==
    [][ /\ lastOp' \in { "analyze_portfolio", "get_hedge_recommendations" } =>
              \A t \in Registered :
                  IF strategy_configs[t].enabled
                  THEN AnyBreach(check_breach(thresholds, portfolio)) => t \in invoked'
                  ELSE /\ t \notin invoked'
                       /\ strategy_performance'[t] = strategy_performance[t]
                       /\ \A i \in DOMAIN recommendations' :
                              ~ContainsTag(recommendations'[i].reasoning, t)
        /\ lastOp' # "enable_strategy" => EnabledFlags' = EnabledFlags
        /\ \A t \in NamedStrategies, e \in BOOLEAN :
              enable_strategy(t, e) =>
                  /\ strategy_order' = strategy_order
                  /\ strategy_performance' = strategy_performance
                  /\ IF t \in Registered
                     THEN strategy_configs'
                              = [strategy_configs EXCEPT ![t].enabled = e]
                     ELSE strategy_configs' = strategy_configs ]_vars

\* an analysis with a breach skipped the disabled delta-neutral strategy
\* and returned what another strategy recommended
C23_Witness ==
    /\ lastOp = "analyze_portfolio"
    /\ ~strategy_configs.delta_neutral.enabled
    /\ strategy_configs.protective_put.enabled
    /\ "delta_neutral" \notin invoked
    /\ "protective_put" \in invoked
    /\ recommendations # << >>


-----------------------------------------------------------------------------
(* The direction of the delta-neutral hedge                                *)

\* the delta a recommendation contributes when applied: BUY +size, SELL -size
AppliedDelta(rec) == IF rec.action = "BUY" THEN rec.size ELSE -rec.size

\* C28: with hedge_ratio 1 the delta-neutral recommendation for a position
\* of positive delta is a SELL, for one of negative delta a BUY, and the
\* position's delta plus the delta the hedge contributes is zero.
C28_HedgeOffsetsDelta ==
    ( /\ lastOp = "delta_neutral.analyze_position"
      /\ strategy_configs.delta_neutral.hedge_ratio = BP
      /\ recommendations # << >> ) =>
        /\ AnalysedDelta > 0 => recommendations[1].action = "SELL"
        /\ AnalysedDelta < 0 => recommendations[1].action = "BUY"
        /\ AnalysedDelta + AppliedDelta(recommendations[1]) = 0


-----------------------------------------------------------------------------
(* Well-formedness of the recommendations handed to the caller             *)

\* size > 0, a price, an estimated cost and a known urgency
WellFormedRecommendation(rec) ==
    /\ rec.size > 0
    /\ rec.price # None
    /\ rec.estimated_cost # None
    /\ rec.urgency \in { "LOW", "MEDIUM", "HIGH", "CRITICAL" }

\* C27: every recommendation returned by analyze_portfolio, by
\* get_hedge_recommendations (its fallback recommendation included) and by
\* select_optimal_hedges has size > 0, a non-null price, a non-null
\* estimated cost and an urgency in {LOW, MEDIUM, HIGH, CRITICAL}.
C27_RecommendationsWellFormed ==
    /\ lastOp \in { "analyze_portfolio", "get_hedge_recommendations" } =>
          \A i \in DOMAIN recommendations :
              WellFormedRecommendation(recommendations[i])
    /\ lastOp = "select_optimal_hedges" =>
          \A i \in DOMAIN selected : WellFormedRecommendation(selected[i])


-----------------------------------------------------------------------------
(* The analysis operations beside the portfolio's own operations           *)

\* the recommendation list a caller passes to rank_recommendations and
\* select_optimal_hedges
FrameRecs == << AnalysedRecommendations[1] >>

\* the positions a caller adds and removes: one long, one short
FramePositionPool ==
    { p \in ManagerPositionPool : p.delta \in { Some(QTY), Some(-QTY) } }

\* A default manager, an empty portfolio, and the arguments a caller holds
InitFrame ==
    /\ portfolio = [ positions |-> << >>, cash |-> 0 ]
    /\ thresholds = DefaultThresholds
    /\ breaches = NoBreaches
    /\ lastOp = "init"
    /\ strategy_configs = DefaultConfigs
    /\ strategy_order = DefaultOrder
    /\ strategy_performance = [ t \in Range(DefaultOrder) |-> StrategyPerformance ]
    /\ recommendations = << >>
    /\ invoked = {}
    /\ raised = {}
    /\ call_market_data = Some(MarketDataFull)
    /\ call_recs = FrameRecs
    /\ call_budget = None
    /\ rankings = << >>
    /\ selected = << >>
    /\ CalculatorInit
    /\ RegistryInit
    /\ LimiterInit

\* the analysis operations, each on the portfolio as it is, with the market
\* data the caller holds and no strategy raising
AnalysisStep ==
    \/ AnalyzePortfolio /\ raised' = {} /\ call_market_data' = call_market_data
    \/ GetHedgeRecommendations /\ raised' = {}
                               /\ call_market_data' = call_market_data
    \/ RankRecommendations
    \/ SelectOptimalHedges
    \/ \E t \in Range(DefaultOrder) : StrategyAnalyzePortfolio(t)

\* the caller adds either position and takes the short one out again
NextFrame ==
    \/ \E p \in FramePositionPool : add_position(p)
    \/ \E p \in { q \in FramePositionPool : q.size < 0 } : remove_position(p)
    \/ AnalysisStep

SpecFrame == InitFrame /\ [][NextFrame]_vars

AnalysisOps ==
    { "analyze_portfolio", "get_hedge_recommendations", "rank_recommendations",
      "select_optimal_hedges" }
    \cup { t \o ".analyze_portfolio" : t \in Range(DefaultOrder) }

\* C26: get_hedge_recommendations, StrategyManager.analyze_portfolio,
\* rank_recommendations, select_optimal_hedges and the strategies'
\* analyze_portfolio leave the position list, every field of every position
\* and cash as they were; the portfolio changes in add_position and
\* remove_position steps only.
C26_AnalysisLeavesPortfolio ==
    [][ /\ lastOp' \in AnalysisOps => portfolio' = portfolio
        /\ portfolio' # portfolio => lastOp' \in { "add_position", "remove_position" }
      ]_vars

\* the delta-neutral strategy analysed a portfolio of two positions and
\* returned a recommendation for their net delta, after the manager had
\* ranked a list against a portfolio
C26_Witness ==
    /\ lastOp = "delta_neutral.analyze_portfolio"
    /\ recommendations # << >>
    /\ rankings # << >>
    /\ Len(portfolio.positions) = 2


-----------------------------------------------------------------------------
(* RateLimiter (bot/utils.py)                                              *)

\* RateLimiter(max_requests=2, window_seconds=2), the limiter of
\* test_rate_limit_reset with a window two clock ticks long
max_requests == 2
window_seconds == 2

\* the clock is read up to this time
MaxTime == 5

\* the users who send commands
UserSet == { 123, 456 }

\* the request times of user_id the limiter holds ([] for an unseen user)
RequestsOf(reqs, user_id) ==
    IF user_id \in DOMAIN reqs THEN reqs[user_id] ELSE << >>

\* A mutation of RateLimiter.is_allowed: the time of a denied request is
\* appended too.
is_allowed_recording(user_id) ==
    LET cutoff == now - window_seconds
        kept == SelectSeq(RequestsOf(requests, user_id), LAMBDA req_time : req_time > cutoff)
        ok == ~(Len(kept) >= max_requests)
    IN  /\ requests' = [ u \in DOMAIN requests \cup { user_id } |->
                           IF u = user_id THEN Append(kept, now)
                           ELSE requests[u] ]
        /\ granted' = [ u \in DOMAIN granted \cup { user_id } |->
                          IF u = user_id
                          THEN IF ok THEN Append(RequestsOf(granted, u), now)
                               ELSE RequestsOf(granted, u)
                          ELSE granted[u] ]
        /\ allowed' = Some([ user_id |-> user_id, result |-> ok ])
        /\ lastOp' = "is_allowed"
        /\ UNCHANGED << now, calculatorVars, registryVars, portfolio, thresholds,
                        breaches, managerVars, selectVars >>

\* RateLimiter.is_allowed(user_id) at the time now: the user's list is
\* created, pruned to the times later than now - window_seconds, and now is
\* appended unless max_requests times remain.  granted logs, per user, the
\* times of the calls that returned True.
is_allowed(user_id) ==
    LET cutoff == now - window_seconds
        kept == SelectSeq(RequestsOf(requests, user_id), LAMBDA req_time : req_time > cutoff)
        ok == ~(Len(kept) >= max_requests)
    IN  /\ requests' = [ u \in DOMAIN requests \cup { user_id } |->
                           IF u = user_id
                           THEN IF ok THEN Append(kept, now) ELSE kept
                           ELSE requests[u] ]
        /\ granted' = [ u \in DOMAIN granted \cup { user_id } |->
                          IF u = user_id
                          THEN IF ok THEN Append(RequestsOf(granted, u), now)
                               ELSE RequestsOf(granted, u)
                          ELSE granted[u] ]
        /\ allowed' = Some([ user_id |-> user_id, result |-> ok ])
        /\ lastOp' = "is_allowed"
        /\ UNCHANGED << now, calculatorVars, registryVars, portfolio, thresholds,
                        breaches, managerVars, selectVars >>

\* datetime.now() moves on between two calls
Tick ==
    /\ now < MaxTime
    /\ now' = now + 1
    /\ lastOp' = "tick"
    /\ UNCHANGED << requests, granted, allowed, calculatorVars, registryVars,
                    portfolio, thresholds, breaches, managerVars, selectVars >>

InitLimiter ==
    /\ portfolio = [ positions |-> << >>, cash |-> 0 ]
    /\ thresholds = DefaultThresholds
    /\ breaches = NoBreaches
    /\ lastOp = "init"
    /\ strategy_configs = DefaultConfigs
    /\ ManagerInit
    /\ SelectInit
    /\ CalculatorInit
    /\ RegistryInit
    /\ LimiterInit

NextLimiter ==
    \/ \E user_id \in UserSet : is_allowed(user_id)
    \/ Tick

SpecLimiter == InitLimiter /\ [][NextLimiter]_vars

\* number of the times of s in the window (t - window_seconds, t]
InWindow(s, t) ==
    Cardinality({ i \in DOMAIN s : s[i] > t - window_seconds /\ s[i] <= t })

\* C25: is_allowed grants a user at most max_requests requests within any
\* window of window_seconds; a call is denied exactly when the user has
\* max_requests granted requests younger than the window; a denied call is
\* not recorded; one user's calls leave another user's record alone.
C25_RateLimit ==
    [][ /\ \A u \in DOMAIN granted', t \in 0..MaxTime :
              InWindow(granted'[u], t) <= max_requests
        /\ \A user_id \in UserSet :
              is_allowed(user_id) =>
                  /\ allowed'[1].result
                        = ( InWindow(RequestsOf(granted, user_id), now) < max_requests )
                  /\ ~allowed'[1].result =>
                        /\ granted'[user_id] = RequestsOf(granted, user_id)
                        /\ now \notin Range(requests'[user_id])
                               \ Range(RequestsOf(requests, user_id))
                  /\ allowed'[1].result =>
                        /\ granted'[user_id]
                              = Append(RequestsOf(granted, user_id), now)
                        /\ requests'[user_id][Len(requests'[user_id])] = now
                  /\ \A v \in UserSet \ { user_id } :
                        /\ RequestsOf(requests', v) = RequestsOf(requests, v)
                        /\ RequestsOf(granted', v) = RequestsOf(granted, v)
      ]_vars

\* user 123 was denied and, a window later, granted again, while user 456
\* has its own two requests in the window
C25_Witness ==
    /\ lastOp = "is_allowed"
    /\ allowed = Some([ user_id |-> 123, result |-> TRUE ])
    /\ 123 \in DOMAIN granted /\ Len(granted[123]) = max_requests + 1
    /\ 456 \in DOMAIN granted /\ InWindow(granted[456], now) = max_requests


-----------------------------------------------------------------------------
(* The strategy registry and the performance counters                      *)
(* (strategies/strategy_manager.py)                                        *)

\* update_strategy_performance is called at most this often
MaxUpdates == 2

\* m with key k bound to v (a dict assignment m[k] = v)
WithKey(m, k, v) == [ u \in DOMAIN m \cup { k } |-> IF u = k THEN v ELSE m[u] ]

\* m without key k (del m[k])
WithoutKey(m, k) == [ u \in DOMAIN m \ { k } |-> m[u] ]

\* the identity of a config object just created: one no strategy holds
FreshConfigId ==
    CHOOSE i \in 1..(Cardinality(DOMAIN strategies) + 1) :
        /\ i \notin Range(strategies)
        /\ \A j \in 1..(i - 1) : j \in Range(strategies)

\* the configs of the strategies a caller builds and adds: the default one
\* of each type, and a delta-neutral one that is disabled
AddConfigSet ==
    Range(DefaultConfigs)
    \cup { [DefaultConfigs.delta_neutral EXCEPT !.enabled = FALSE] }

\* A mutation of add_strategy: strategy_configs gets a copy of the
\* strategy's config.
add_strategy_copying(config) ==
    LET strategy_type == config.strategy IN
    /\ strategies' = WithKey(strategies, strategy_type, FreshConfigId)
    /\ strategy_config_ids' = WithKey(strategy_config_ids, strategy_type,
                                      FreshConfigId + 1)
    /\ strategy_configs' = WithKey(strategy_configs, strategy_type, config)
    /\ strategy_performance' = WithKey(strategy_performance, strategy_type,
                                       StrategyPerformance)
    /\ strategy_order' = IF strategy_type \in Range(strategy_order)
                         THEN strategy_order
                         ELSE Append(strategy_order, strategy_type)
    /\ lastOp' = "add_strategy"
    /\ NoCallObserved
    /\ UNCHANGED << calculatorVars, limiterVars, update_calls, portfolio,
                    thresholds, breaches, selectVars >>

\* StrategyManager.add_strategy(strategy), the strategy just built on a new
\* config object: the three dicts get the entry of the config's type (a dict
\* keeps the place of a key it already has)
add_strategy(config) ==
    LET strategy_type == config.strategy IN
    /\ strategies' = WithKey(strategies, strategy_type, FreshConfigId)
    /\ strategy_config_ids' = WithKey(strategy_config_ids, strategy_type,
                                      FreshConfigId)
    /\ strategy_configs' = WithKey(strategy_configs, strategy_type, config)
    /\ strategy_performance' = WithKey(strategy_performance, strategy_type,
                                       StrategyPerformance)
    /\ strategy_order' = IF strategy_type \in Range(strategy_order)
                         THEN strategy_order
                         ELSE Append(strategy_order, strategy_type)
    /\ lastOp' = "add_strategy"
    /\ NoCallObserved
    /\ UNCHANGED << calculatorVars, limiterVars, update_calls, portfolio,
                    thresholds, breaches, selectVars >>

\* StrategyManager.remove_strategy
remove_strategy(strategy_type) ==
    /\ IF strategy_type \in DOMAIN strategies
       THEN /\ strategies' = WithoutKey(strategies, strategy_type)
            /\ strategy_config_ids' = WithoutKey(strategy_config_ids, strategy_type)
            /\ strategy_configs' = WithoutKey(strategy_configs, strategy_type)
            /\ strategy_performance' = WithoutKey(strategy_performance, strategy_type)
            /\ strategy_order' = SelectSeq(strategy_order,
                                           LAMBDA u : u # strategy_type)
       ELSE UNCHANGED << strategies, strategy_config_ids, strategy_configs,
                         strategy_performance, strategy_order >>
    /\ lastOp' = "remove_strategy"
    /\ NoCallObserved
    /\ UNCHANGED << calculatorVars, limiterVars, update_calls, portfolio,
                    thresholds, breaches, selectVars >>

\* the running mean (avg * (n - 1) + execution_time) / n, in lowest terms
RunningMean(avg, n, execution_time) ==
    Ratio(avg.num * (n - 1) + execution_time * avg.den, avg.den * n)

\* the record of one update_strategy_performance call
UpdateCall(strategy_type, executed, cost, risk_reduction, execution_time) ==
    [ strategy_type |-> strategy_type, executed |-> executed, cost |-> cost,
      risk_reduction |-> risk_reduction, execution_time |-> execution_time ]

\* the counters of one strategy after update_strategy_performance
UpdatedPerformance(perf, executed, cost, risk_reduction, execution_time) ==
    LET counted == IF executed
                   THEN [perf EXCEPT
                           !.executed_recommendations = @ + 1,
                           !.total_cost = @ + cost,
                           !.total_risk_reduction = @ + risk_reduction]
                   ELSE perf
        timed == IF counted.executed_recommendations > 0
                 THEN [counted EXCEPT
                         !.avg_execution_time =
                             RunningMean(@, counted.executed_recommendations,
                                         execution_time)]
                 ELSE counted
    IN  [timed EXCEPT !.success_rate = execution_rate(timed)]

\* StrategyManager.update_strategy_performance; update_calls logs the calls
update_strategy_performance(strategy_type, executed, cost, risk_reduction, execution_time) ==
    /\ Len(update_calls) < MaxUpdates
    /\ strategy_performance' =
          IF strategy_type \in DOMAIN strategy_performance
          THEN [strategy_performance EXCEPT
                  ![strategy_type] = UpdatedPerformance(@, executed, cost,
                                                        risk_reduction,
                                                        execution_time)]
          ELSE strategy_performance
    /\ update_calls' = Append(update_calls,
                              UpdateCall(strategy_type, executed, cost,
                                         risk_reduction, execution_time))
    /\ lastOp' = "update_strategy_performance"
    /\ NoCallObserved
    /\ UNCHANGED << calculatorVars, limiterVars, strategies, strategy_config_ids,
                    strategy_configs, strategy_order, portfolio, thresholds,
                    breaches, selectVars >>

\* A default manager whose registry the caller changes
InitRegistry ==
    /\ portfolio = [ positions |-> << >>, cash |-> 0 ]
    /\ thresholds = DefaultThresholds
    /\ breaches = NoBreaches
    /\ lastOp = "init"
    /\ strategy_configs = DefaultConfigs
    /\ ManagerInit
    /\ SelectInit
    /\ CalculatorInit
    /\ RegistryInit
    /\ LimiterInit

\* the types a caller enables, disables and reports executions of: one of
\* the defaults and one that is never registered
ReportedStrategies == { "delta_neutral", "covered_call" }

\* the execution a caller reports: cost 1000.0, risk reduction 0.5, 2.5 s
NextRegistry ==
    \/ \E config \in AddConfigSet : add_strategy(config)
    \/ \E t \in NamedStrategies \cup Range(DefaultOrder) : remove_strategy(t)
    \/ \E t \in ReportedStrategies, e \in BOOLEAN : enable_strategy(t, e)
    \/ \E t \in ReportedStrategies :
          update_strategy_performance(t, TRUE, 1000 * CENTS, BP \div 2, 250)

SpecRegistry == InitRegistry /\ [][NextRegistry]_vars

\* C29: after any sequence of add_strategy, remove_strategy and
\* enable_strategy calls the dicts strategies, strategy_configs and
\* strategy_performance have the same keys, strategy_configs[t] is the
\* config object strategies[t] uses, and adding a strategy of a type that
\* is registered replaces it and sets its performance counters to zero.
C29_RegistriesAgree ==
    [][ /\ DOMAIN strategies' = DOMAIN strategy_configs'
        /\ DOMAIN strategy_configs' = DOMAIN strategy_performance'
        /\ \A t \in DOMAIN strategies' : strategy_config_ids'[t] = strategies'[t]
        /\ \A config \in AddConfigSet :
              add_strategy(config) =>
                  /\ strategy_configs'[config.strategy] = config
                  /\ strategy_performance'[config.strategy] = StrategyPerformance
                  /\ strategies'[config.strategy] \notin Range(strategies)
                  /\ \A u \in DOMAIN strategies \ { config.strategy } :
                        /\ strategies'[u] = strategies[u]
                        /\ strategy_performance'[u] = strategy_performance[u]
      ]_vars

\* a delta-neutral strategy was added while all three default strategies
\* were registered and an execution of the old one had been reported: the
\* new one has a new config object and zero counters
C29_Witness ==
    /\ lastOp = "add_strategy"
    /\ DOMAIN strategies = Range(DefaultOrder)
    /\ strategies.delta_neutral = 4
    /\ update_calls # << >>
    /\ update_calls[1].strategy_type = "delta_neutral"
    /\ strategy_performance.delta_neutral = StrategyPerformance


-----------------------------------------------------------------------------
(* The performance counters under analyses and reported executions         *)

\* what a caller reports of one recommendation: executed at cost 1000.0
\* with risk reduction 0.5 in 2.5 s, executed at 500.0 with 0.25 in 1.5 s,
\* or not executed after 1.0 s
ReportSet ==
    { [ executed |-> TRUE, cost |-> 1000 * CENTS, risk_reduction |-> BP \div 2,
        execution_time |-> 250 ],
      [ executed |-> TRUE, cost |-> 500 * CENTS, risk_reduction |-> BP \div 4,
        execution_time |-> 150 ],
      [ executed |-> FALSE, cost |-> 0, risk_reduction |-> 0,
        execution_time |-> 100 ] }

\* The call manager.update_strategy_performance(t, ...) with a report
UpdateStrategyPerformance ==
    \E t \in ReportedStrategies, r \in ReportSet :
        update_strategy_performance(t, r.executed, r.cost, r.risk_reduction,
                                    r.execution_time)

\* A default manager and the one-position portfolio it is asked about
InitPerformance ==
    /\ portfolio \in { pf \in ManagerPortfolioSet : Len(pf.positions) = 1 }
    /\ thresholds = DefaultThresholds
    /\ breaches = NoBreaches
    /\ lastOp = "init"
    /\ strategy_configs = DefaultConfigs
    /\ ManagerInit
    /\ SelectInit
    /\ CalculatorInit
    /\ RegistryInit
    /\ LimiterInit

NextPerformance ==
    \/ AnalyzePortfolio
    \/ UpdateStrategyPerformance

SpecPerformance == InitPerformance /\ [][NextPerformance]_vars

\* the calls of the log for strategy t that reported an execution
ExecutedCalls(calls, t) ==
    SelectSeq(calls, LAMBDA c : c.strategy_type = t /\ c.executed)

\* the four values of perf are those the executed calls add up to
MatchesCalls(perf, calls) ==
    /\ perf.executed_recommendations = Len(calls)
    /\ perf.total_cost = SumSeq([i \in DOMAIN calls |-> calls[i].cost])
    /\ perf.total_risk_reduction
          = SumSeq([i \in DOMAIN calls |-> calls[i].risk_reduction])
    /\ perf.avg_execution_time
          = IF calls = << >> THEN Ratio(0, 1)
            ELSE Ratio(SumSeq([i \in DOMAIN calls |-> calls[i].execution_time]),
                       Len(calls))

\* the four values C24 speaks of
FourValues(perf) ==
    << perf.executed_recommendations, perf.total_cost,
       perf.total_risk_reduction, perf.avg_execution_time >>

\* C24: after any sequence of update_strategy_performance calls a
\* registered strategy's executed_recommendations is the number of calls
\* with executed=true, total_cost and total_risk_reduction are the sums over
\* those calls and avg_execution_time is the mean of their execution times;
\* a call with executed=false changes none of the four, and a call for a
\* strategy that is not registered changes nothing.
C24_PerformanceTotals ==
    [][ /\ \A t \in DOMAIN strategy_performance' :
              MatchesCalls(strategy_performance'[t],
                           ExecutedCalls(update_calls', t))
        /\ \A t \in ReportedStrategies, r \in ReportSet :
              update_strategy_performance(t, r.executed, r.cost,
                                          r.risk_reduction, r.execution_time) =>
                  /\ t \notin DOMAIN strategy_performance =>
                        strategy_performance' = strategy_performance
                  /\ (t \in DOMAIN strategy_performance /\ ~r.executed) =>
                        FourValues(strategy_performance'[t])
                           = FourValues(strategy_performance[t])
      ]_vars

\* the number of recommendations of recs that strategy t produced
TaggedCount(recs, t) ==
    Cardinality({ i \in DOMAIN recs : ContainsTag(recs[i].reasoning, t) })

\* a rate between 0 and 1
IsFraction(rate) == rate.num >= 0 /\ rate.num <= rate.den

\* C30: after any interleaving of analyze_portfolio and
\* update_strategy_performance calls no strategy's executed_recommendations
\* exceeds its total_recommendations, so execution_rate and success_rate lie
\* in [0, 1]; total_recommendations counts the recommendations the strategy
\* has returned through analyze_portfolio.
C30_ExecutedWithinTotal ==
    [][ /\ \A t \in DOMAIN strategy_performance' :
              /\ strategy_performance'[t].executed_recommendations
                    <= strategy_performance'[t].total_recommendations
              /\ IsFraction(execution_rate(strategy_performance'[t]))
              /\ IsFraction(strategy_performance'[t].success_rate)
        /\ \A t \in DOMAIN strategy_performance :
              strategy_performance'[t].total_recommendations
                 = strategy_performance[t].total_recommendations
                   + ( IF lastOp' = "analyze_portfolio"
                       THEN TaggedCount(recommendations', t) ELSE 0 )
      ]_vars

=============================================================================
